---- MODULE Spec2Model ----
(***************************************************************************)
(* A model of the MCP Helper core: the server-card validator and scoring,  *)
(* the settings store with its timestamped backups, and the status         *)
(* manager.  Every operator is translated from the JavaScript source; the  *)
(* file system is the state, one action per handler.                       *)
(***************************************************************************)
EXTENDS Integers, Sequences, FiniteSets, TLC

VARIABLES
  vCard,          \* validator: the server card under validation
  vProvided,      \* validator: providedVars, name -> value
  vResult,        \* validator: result of validateEnvVars, or NoResult
  rCards,         \* card store: the cards in insertion (store) order
  rConfigured,    \* ids of the servers present in the settings document
  rOut,           \* result of the last scoring or ranking call
  oFeatures,      \* completion calculator: feature key -> completion percent
  oOut,           \* completion calculator: result of the last calculation
  now,            \* the clock, in milliseconds
  steps,          \* number of handler calls made so far
  files,          \* the settings, project variable and status files
  backups,        \* the backup copies of each file: sets of [ts, content]
  everBacked,     \* history: every backup timestamp used so far, per file
  prevFiles,      \* history: the files as they were before the last call
  last,           \* history: the last call and its outcome
  cIn,            \* the arguments of the call under examination
  cOut            \* what that call returned

valVars == <<vCard, vProvided, vResult>>
rankVars == <<rCards, rConfigured, rOut>>
calcVars == <<oFeatures, oOut>>
diskVars == <<now, steps, files, backups, everBacked, prevFiles, last>>
callVars == <<cIn, cOut>>
vars == <<vCard, vProvided, vResult, rCards, rConfigured, rOut, oFeatures, oOut,
          now, steps, files, backups, everBacked, prevFiles, last, cIn, cOut>>

----------------------------------------------------------------------------
(* Sequence helpers *)

Range(s) == {s[i] : i \in 1..Len(s)}

SeqsUpTo(S, n) == UNION {[1..k -> S] : k \in 0..n}

----------------------------------------------------------------------------
(* Server cards: envSchema and validateEnvVars (server-cards manager)       *)

\* longest envSchema enumerated
MaxSchemaLen == 2

EnvNames == {"API_KEY", "TOKEN"}

\* the `required` field of an envSchema entry: not present, true or false
RequiredField == {"absent", "true", "false"}

EnvEntries == [name : EnvNames, required : RequiredField]

\* a card either has no envSchema property or has a list of entries
Cards == [hasSchema : {FALSE}, envSchema : {<<>>}]
           \cup [hasSchema : {TRUE}, envSchema : SeqsUpTo(EnvEntries, MaxSchemaLen)]

\* a provided value: the key is not there, the empty string, or a text
ProvidedValues == {"undef", "", "secret"}

\* JavaScript truthiness of a provided value (!providedVars[name] negates it)
Truthy(v) == v # "undef" /\ v # ""

\* a mutation of getRequiredEnvVars: keeps only entries whose field is true
getRequiredEnvVarsTruthy(card) ==
  IF ~card.hasSchema THEN <<>>
  ELSE LET kept == SelectSeq(card.envSchema, LAMBDA env : env.required = "true")
       IN [i \in 1..Len(kept) |-> [name |-> kept[i].name]]

\* getRequiredEnvVars: filter(env => env.required !== false)
getRequiredEnvVars(card) ==
  IF ~card.hasSchema THEN <<>>
  ELSE LET kept == SelectSeq(card.envSchema, LAMBDA env : env.required # "false")
       IN [i \in 1..Len(kept) |-> [name |-> kept[i].name]]

\* getOptionalEnvVars: filter(env => env.required === false)
getOptionalEnvVars(card) ==
  IF ~card.hasSchema THEN <<>>
  ELSE LET kept == SelectSeq(card.envSchema, LAMBDA env : env.required = "false")
       IN [i \in 1..Len(kept) |-> [name |-> kept[i].name]]

\* a mutation of validateEnvVars: stops at the first missing variable
validateEnvVarsFirstOnly(card, providedVars) ==
  LET required == getRequiredEnvVars(card)
      missing  == SelectSeq(required, LAMBDA r : ~Truthy(providedVars[r.name]))
      first    == IF missing = <<>> THEN <<>> ELSE <<missing[1]>>
  IN [valid |-> Len(first) = 0, missing |-> first]

\* validateEnvVars: collect every required variable without a truthy value
validateEnvVars(card, providedVars) ==
  LET required == getRequiredEnvVars(card)
      missing  == SelectSeq(required, LAMBDA r : ~Truthy(providedVars[r.name]))
  IN [valid |-> Len(missing) = 0, missing |-> missing]

NoResult == [valid |-> FALSE, missing |-> <<[name |-> "none"]>>]

----------------------------------------------------------------------------
(* Scoring and ranking of server cards                                      *)

\* most cards enumerated in the store
MaxCards == 2

\* the list handler shows the first five available cards
TopAvailable == 5

CardIds == <<"c1", "c2", "c3", "c4", "c5", "c6", "c7">>

Ratings == 1..5

\* a card's agenticUsefulness: absent, or the two ratings
ScoredCards ==
  [id : Range(CardIds), rated : {TRUE}, aiAgentRating : Ratings,
   humanVerificationRating : Ratings]
  \cup [id : Range(CardIds), rated : {FALSE}, aiAgentRating : {0},
        humanVerificationRating : {0}]

\* search keywords; "c" is a substring of every id, an id only of itself
Keywords == {"c", "c1", "c2"}

\* JavaScript numbers are IEEE-754 doubles.  A double near a multiple of one
\* tenth is written [k, d]: k tenths plus d units of 2^-53/5.  One tenth is
\* 2^52 units, and 2^52 % 160 = 96, which gives the position of [k, d] on
\* the grid of doubles of its binade.
TenthMod == 96

\* units in the last place of the binade holding k tenths (+ d units)
Ulp(k, d) ==
  IF k >= 80 THEN 80
  ELSE IF k >= 40 THEN 40
  ELSE IF k >= 20 THEN 20
  ELSE IF k >= 10 THEN 10
  ELSE 5

\* round to nearest double, ties to the even significand
RoundDouble(k, d) ==
  LET p    == Ulp(k, d)
      a    == TenthMod * k + d + 1600
      r    == a % p
      down == [k |-> k, d |-> d - r]
      up   == [k |-> k, d |-> d + (p - r)]
  IN IF k = 0 \/ r = 0 THEN [k |-> k, d |-> d]
     ELSE IF 2 * r < p THEN down
     ELSE IF 2 * r > p THEN up
     ELSE IF (a - r) % (2 * p) = 0 THEN down ELSE up

\* the literals 1.2 and 0.8 as doubles
Double12 == RoundDouble(12, 0)
Double08 == RoundDouble(8, 0)

\* n * x for a small integer n, and x + y, each rounded once
MulDouble(n, x) == RoundDouble(n * x.k, n * x.d)
AddDouble(x, y) == RoundDouble(x.k + y.k, x.d + y.d)

\* an integer that orders doubles as their values do (|d| stays below 500)
DoubleKey(x) == x.k * 1000 + x.d

ZeroDouble == [k |-> 0, d |-> 0]

\* a mutation of getAgenticScore: the two weights exchanged
getAgenticScoreSwapped(card) ==
  IF ~card.rated THEN ZeroDouble
  ELSE AddDouble(MulDouble(card.aiAgentRating, Double08),
                 MulDouble(card.humanVerificationRating, Double12))

\* getAgenticScore: (aiAgentRating * 1.2) + (humanVerificationRating * 0.8)
getAgenticScore(card) ==
  IF ~card.rated THEN ZeroDouble
  ELSE AddDouble(MulDouble(card.aiAgentRating, Double12),
                 MulDouble(card.humanVerificationRating, Double08))

\* the comparator of recommendServers orders by bScore - aScore
agenticKey(card) == DoubleKey(getAgenticScore(card))

\* Array.prototype.sort with comparator (a, b) => key[b] - key[a]: a stable
\* sort, descending by key (a function of the elements).  The element at index i lands after every
\* element with a larger key and after the earlier elements with an equal key.
SortDesc(s, key) ==
  LET before(i) == {j \in 1..Len(s) :
                      key[s[j]] > key[s[i]] \/ (key[s[j]] = key[s[i]] /\ j < i)}
  IN [p \in 1..Len(s) |->
        s[CHOOSE i \in 1..Len(s) : Cardinality(before(i)) = p - 1]]

\* searchCards: the cards whose name or id contains the keyword, store order
searchCards(cards, keyword) ==
  SelectSeq(cards, LAMBDA card : keyword = "c" \/ keyword = card.id)

\* a mutation of recommendServers: the matches are returned unsorted
recommendServersUnsorted(cards, useCase) == searchCards(cards, useCase)

\* recommendServers(useCase): the matches sorted by getAgenticScore
recommendServers(cards, useCase) ==
  LET matches == searchCards(cards, useCase)
  IN SortDesc(matches, [card \in Range(matches) |-> agenticKey(card)])

\* the list handler's inline score: the plain sum of the two ratings (|| 0)
listScore(card) ==
  (IF card.rated THEN card.aiAgentRating ELSE 0)
    + (IF card.rated THEN card.humanVerificationRating ELSE 0)

\* the list handler: cards not configured, sorted by listScore, first five
availableList(allCards, configuredServers) ==
  LET catalogServers == SelectSeq(allCards, LAMBDA card : card.id \notin configuredServers)
      sorted == SortDesc(catalogServers,
                         [card \in Range(catalogServers) |-> listScore(card)])
  IN SubSeq(sorted, 1, IF Len(sorted) < TopAvailable THEN Len(sorted) ELSE TopAvailable)

NoRank == [op |-> "none", arg |-> "none", score |-> ZeroDouble, list |-> <<>>]

\* stores of up to MaxCards cards; the i-th card inserted has the i-th id
Stores ==
  UNION {{s \in [1..k -> ScoredCards] : \A i \in 1..k : s[i].id = CardIds[i]}
           : k \in 0..MaxCards}

----------------------------------------------------------------------------
(* Overall completion from feature completions                              *)

FeatureKeys ==
  {"core_functionality", "testing", "slash_commands", "npm_package", "feature_a"}

Completions == {0, 30, 50, 100}

\* sum of the values of f over the keys in S
RECURSIVE SumOver(_, _)
SumOver(f, S) ==
  IF S = {} THEN 0
  ELSE LET k == CHOOSE x \in S : TRUE IN f[k] + SumOver(f, S \ {k})

\* Math.round of the non-negative quotient num / den (halves round up)
MathRound(num, den) == (2 * num + den) \div (2 * den)

\* the weight table of the init-status command, in hundredths
InitWeights ==
  [core_functionality |-> 40, documentation |-> 15, testing |-> 20,
   deployment |-> 15, optimization |-> 10]

\* the weight table of the status manager, in hundredths
StatusWeights ==
  [slash_commands |-> 30, custom_server_support |-> 30, server_cards |-> 25,
   npm_package |-> 15]

\* calculateOverallCompletion that truncates the plain mean
calculateOverallTruncated(features, useWeighted) ==
  LET keys == DOMAIN features
      n    == Cardinality(keys)
  IN IF n = 0 THEN 0 ELSE SumOver(features, keys) \div n

\* calculateOverallCompletion(features, useWeighted) of the init-status
\* command.  A key missing from the table weighs 1 / (number of features);
\* all weights are kept as multiples of 1 / (100 * number of features).
calculateOverallCompletion(features, useWeighted) ==
  LET keys == DOMAIN features
      n    == Cardinality(keys)
      w    == [k \in keys |->
                 IF k \in DOMAIN InitWeights THEN InitWeights[k] * n ELSE 100]
      totalWeight == SumOver(w, keys)
      weightedSum == SumOver([k \in keys |-> features[k] * w[k]], keys)
  IN IF n = 0 THEN 0
     ELSE IF useWeighted
          THEN (IF totalWeight > 0 THEN MathRound(weightedSum, totalWeight) ELSE 0)
          ELSE MathRound(SumOver(features, keys), n)

\* StatusManager.calculateOverallCompletion(features): a key missing from
\* the table weighs 0 and the sum is not divided by the weights used
statusCalculateOverallCompletion(features) ==
  LET keys == DOMAIN features
      w    == [k \in keys |->
                 IF k \in DOMAIN StatusWeights THEN StatusWeights[k] ELSE 0]
  IN MathRound(SumOver([k \in keys |-> features[k] * w[k]], keys), 100)

NoCalc == [op |-> "none", value |-> 0]

FeatureMaps == UNION {[S -> Completions] : S \in SUBSET FeatureKeys}

----------------------------------------------------------------------------
(* Settings store: ~/.claude.json and .env with timestamped backups         *)

\* handler calls explored per behaviour
MaxSteps == 3

\* clock ticks explored per behaviour
MaxTicks == 2

\* backups kept per file: for (let i = 10; i < backups.length; i++) remove
MaxBackups == 10

ServerIds == {"s1", "s2"}

\* longest variable value explored
MaxValueLen == 2

\* the characters of a variable value: a letter, the letter n, a backslash,
\* a double quote; NL is the line break an escape sequence expands to
EnvChars == {"a", "n", "\\", "\""}
NL == "NL"

EnvStrings == SeqsUpTo(EnvChars, MaxValueLen)

\* the value the store commands write
EnvValues == {<<"a">>}

\* a JavaScript object with string values: its entries in insertion order
Keys(obj) == {obj[i].key : i \in 1..Len(obj)}
Get(obj, k) == obj[CHOOSE i \in 1..Len(obj) : obj[i].key = k].value
AsMap(obj) == [k \in Keys(obj) |-> Get(obj, k)]

\* obj[k] = v
SetKey(obj, k, v) ==
  IF k \in Keys(obj)
  THEN [i \in 1..Len(obj) |->
          IF obj[i].key = k THEN [key |-> k, value |-> v] ELSE obj[i]]
  ELSE Append(obj, [key |-> k, value |-> v])

\* { ...target, ...source }
RECURSIVE Spread(_, _)
Spread(target, source) ==
  IF source = <<>> THEN target
  ELSE Spread(SetKey(target, source[1].key, source[1].value), Tail(source))

\* the objects with keys from EnvNames and values from V
EnvObjects(V) ==
  {obj \in SeqsUpTo([key : EnvNames, value : V], Cardinality(EnvNames)) :
     Cardinality(Keys(obj)) = Len(obj)}

\* envContent += `export ${key}="${value}"\n`: one line per entry, a line
\* being the characters before its line break
formatEnv(obj) ==
  [i \in 1..Len(obj) |->
     <<"export ", obj[i].key, "=", "\"">> \o obj[i].value \o <<"\"">>]

\* value.replace(/^(['"`])([\s\S]*)\1$/mg, '$2'): surrounding quotes removed
StripQuotes(raw) ==
  IF Len(raw) >= 2 /\ raw[1] = "\"" /\ raw[Len(raw)] = "\""
  THEN SubSeq(raw, 2, Len(raw) - 1) ELSE raw

\* value.replace(/\\n/g, '\n'): a backslash followed by n becomes a line break
RECURSIVE ExpandEscapes(_)
ExpandEscapes(v) ==
  IF Len(v) < 2 THEN v
  ELSE IF v[1] = "\\" /\ v[2] = "n"
       THEN <<NL>> \o ExpandEscapes(SubSeq(v, 3, Len(v)))
       ELSE <<v[1]>> \o ExpandEscapes(Tail(v))

\* the value dotenv takes from the text after KEY=: with these characters the
\* text up to the end of the line is the match, whichever alternative of the
\* pattern matches it; escapes are expanded when it starts with a double quote
ParseValue(raw) ==
  IF raw # <<>> /\ raw[1] = "\"" THEN ExpandEscapes(StripQuotes(raw))
  ELSE StripQuotes(raw)

\* dotenv.parse(envContent): obj[key] = value for every line, in order
RECURSIVE dotenvParseInto(_, _)
dotenvParseInto(obj, lines) ==
  IF lines = <<>> THEN obj
  ELSE dotenvParseInto(
         SetKey(obj, lines[1][2], ParseValue(SubSeq(lines[1], 4, Len(lines[1])))),
         Tail(lines))

dotenvParse(lines) == dotenvParseInto(<<>>, lines)

\* a file that is not on disk
NoGlobal == [exists |-> FALSE, mcpServers |-> {}]
NoEnv == [exists |-> FALSE, text |-> <<>>]

\* readGlobalConfig: the document, or { mcpServers: {} } when there is no file
readGlobalConfig(file) == IF file.exists THEN file.mcpServers ELSE {}

\* readProjectEnv: the parsed variables, or {} when there is no file
readProjectEnv(file) == IF file.exists THEN dotenvParse(file.text) ELSE <<>>

\* a mutation of cleanupBackups: the sorted list is not reversed, so the
\* oldest backups are the ones kept
cleanupBackupsOldest(dir) ==
  {e \in dir : Cardinality({x \in dir : x.ts < e.ts}) < MaxBackups}

\* cleanupBackups(filename): of the backups whose name starts with the
\* filename, sorted by name and reversed, those from index 10 on are removed.
\* A backup is named <filename>.<timestamp> and no filename is a prefix of
\* another, so dir holds the backups of one filename and names sort as their
\* timestamps do.
cleanupBackups(dir) ==
  {e \in dir : Cardinality({x \in dir : x.ts > e.ts}) < MaxBackups}

\* fs.copy(configPath, backupPath): a backup of the same name is overwritten
CopyTo(dir, content, ts) ==
  {e \in dir : e.ts # ts} \cup {[ts |-> ts, content |-> content]}

\* backupConfig(configPath): copy the file, if there is one, then clean up
backupConfig(dir, file, ts) ==
  cleanupBackups(IF file.exists THEN CopyTo(dir, file, ts) ELSE dir)

\* a mutation of writeGlobalConfig: the file is written before it is copied
writeGlobalConfigWriteFirst(file, dir, config, ts) ==
  LET written == [exists |-> TRUE, mcpServers |-> config]
  IN [file |-> written, dir |-> backupConfig(dir, written, ts), result |-> TRUE]

\* writeGlobalConfig(config): backupConfig, then fs.writeJson
writeGlobalConfig(file, dir, config, ts) ==
  [file   |-> [exists |-> TRUE, mcpServers |-> config],
   dir    |-> backupConfig(dir, file, ts),
   result |-> TRUE]

\* addServerGlobal(serverId, serverConfig)
addServerGlobal(file, dir, serverId, ts) ==
  writeGlobalConfig(file, dir, readGlobalConfig(file) \cup {serverId}, ts)

\* removeServer(serverId): when the server is configured, backupConfig at
\* ts1, delete the entry, writeGlobalConfig (with its own backup) at ts2
removeServer(file, dir, serverId, ts1, ts2) ==
  IF serverId \in readGlobalConfig(file)
  THEN writeGlobalConfig(file, backupConfig(dir, file, ts1),
                         readGlobalConfig(file) \ {serverId}, ts2)
  ELSE [file |-> file, dir |-> dir, result |-> TRUE]

\* writeProjectEnv(envVars): back up an existing file, spread the given
\* variables over the ones read from the file, write the formatted result
writeProjectEnv(file, dir, envVars, ts) ==
  LET existingEnv == readProjectEnv(file)
      mergedEnv   == Spread(existingEnv, envVars)
  IN [file   |-> [exists |-> TRUE, text |-> formatEnv(mergedEnv)],
      dir    |-> IF file.exists THEN backupConfig(dir, file, ts) ELSE dir,
      result |-> TRUE]

\* the files and backups after removeServer: only ~/.claude.json and its
\* backups are touched ("We don't remove env vars")
removeServerFilesAndEnv(fls, bks, serverId, ts1, ts2) ==
  LET r == removeServer(fls.claude, bks.claude, serverId, ts1, ts2)
  IN [files   |-> [fls EXCEPT !.claude = r.file,
                              !.env = [exists |-> fls.env.exists, text |-> <<>>]],
      backups |-> [bks EXCEPT !.claude = r.dir]]

removeServerFiles(fls, bks, serverId, ts1, ts2) ==
  LET r == removeServer(fls.claude, bks.claude, serverId, ts1, ts2)
  IN [files   |-> [fls EXCEPT !.claude = r.file],
      backups |-> [bks EXCEPT !.claude = r.dir]]

\* handleRemoval of the reconfigure command: after the confirmations, its own
\* backupConfig at ts0, then removeServer
handleRemoval(fls, bks, serverId, confirm1, ts0, ts1, ts2) ==
  IF ~confirm1 THEN [files |-> fls, backups |-> bks]
  ELSE removeServerFiles(
         fls, [bks EXCEPT !.claude = backupConfig(@, fls.claude, ts0)],
         serverId, ts1, ts2)

----------------------------------------------------------------------------
(* The same store when file-system calls fail.  io tells which calls of one *)
(* operation succeed: read (readJson / readFile), copy (ensureDir, copy),   *)
(* prune (readdir, remove), write (writeJson / writeFile).                  *)

IOs == [read : BOOLEAN, copy : BOOLEAN, prune : BOOLEAN, write : BOOLEAN]

\* the body of readGlobalConfig's try block
readGlobalConfigTry(file, io) ==
  IF file.exists
  THEN (IF io.read THEN [threw |-> FALSE, value |-> file.mcpServers]
        ELSE [threw |-> TRUE, value |-> {}])
  ELSE [threw |-> FALSE, value |-> {}]

\* readGlobalConfig: catch (error) { return { mcpServers: {} } }
readGlobalConfigIO(file, io) ==
  LET r == readGlobalConfigTry(file, io)
  IN IF r.threw THEN [threw |-> FALSE, value |-> {}] ELSE r

\* readProjectEnv with its catch: {} when the file is missing or unreadable
readProjectEnvIO(file, io) ==
  LET r == IF file.exists
           THEN (IF io.read THEN [threw |-> FALSE, value |-> dotenvParse(file.text)]
                 ELSE [threw |-> TRUE, value |-> <<>>])
           ELSE [threw |-> FALSE, value |-> <<>>]
  IN IF r.threw THEN [threw |-> FALSE, value |-> <<>>] ELSE r

\* cleanupBackups with its catch: a failure leaves the directory as it is
cleanupBackupsIO(dir, io) == IF io.prune THEN cleanupBackups(dir) ELSE dir

\* a mutation of backupConfigIO: a failed copy is not caught
backupConfigNoCatch(dir, file, ts, io) ==
  IF ~io.copy THEN [threw |-> TRUE, dir |-> dir]
  ELSE [threw |-> FALSE,
        dir   |-> cleanupBackupsIO(IF file.exists THEN CopyTo(dir, file, ts) ELSE dir, io)]

\* backupConfig with its catch: a failing ensureDir or copy is logged and
\* null is returned, without cleaning up
backupConfigIO(dir, file, ts, io) ==
  IF ~io.copy THEN [threw |-> FALSE, dir |-> dir]
  ELSE [threw |-> FALSE,
        dir   |-> cleanupBackupsIO(IF file.exists THEN CopyTo(dir, file, ts) ELSE dir, io)]

\* writeGlobalConfig with its catch: false when the backup or the write throws
writeGlobalConfigIO(file, dir, config, ts, io) ==
  LET b == backupConfigIO(dir, file, ts, io)
  IN IF b.threw THEN [file |-> file, dir |-> b.dir, result |-> FALSE]
     ELSE IF io.write
          THEN [file   |-> [exists |-> TRUE, mcpServers |-> config],
                dir    |-> b.dir,
                result |-> TRUE]
          ELSE [file |-> file, dir |-> b.dir, result |-> FALSE]

addServerGlobalIO(file, dir, serverId, ts, io) ==
  writeGlobalConfigIO(file, dir,
                      readGlobalConfigIO(file, io).value \cup {serverId}, ts, io)

\* writeProjectEnv with its catch
writeProjectEnvIO(file, dir, envVars, ts, io) ==
  LET b == IF file.exists THEN backupConfigIO(dir, file, ts, io)
           ELSE [threw |-> FALSE, dir |-> dir]
      mergedEnv == Spread(readProjectEnvIO(file, io).value, envVars)
  IN IF ~b.threw /\ io.write
     THEN [file   |-> [exists |-> TRUE, text |-> formatEnv(mergedEnv)],
           dir    |-> b.dir,
           result |-> TRUE]
     ELSE [file |-> file, dir |-> b.dir, result |-> FALSE]

\* the add command, global scope, steps 6 to 8: backupConfig,
\* addServerGlobal (its result is not looked at), then the success message
addCommandApply(file, dir, serverId, ts, io) ==
  LET b == backupConfigIO(dir, file, ts, io)
      r == addServerGlobalIO(file, b.dir, serverId, ts, io)
  IN [file |-> r.file, dir |-> r.dir, result |-> r.result,
      threw |-> FALSE, success |-> TRUE]

----------------------------------------------------------------------------
(* Status manager: PROJECT_STATUS.json with its own backup directory        *)

TodoIds == {"t1", "t2"}

TodoLists == <<"pending", "in_progress", "completed_today">>

\* the states a caller may name; any other word is treated as pending
TodoStates == {"pending", "in_progress", "completed"}

NoTodos == [shape |-> "lists", pending |-> <<>>, in_progress |-> <<>>,
            completed_today |-> <<>>]

\* todos: [] as the init-status command writes it
FlatTodos == [NoTodos EXCEPT !.shape = "flat"]

\* getDefaultStatus()
getDefaultStatus(ts) ==
  [project            |-> "mcp-helper",
   overall_completion |-> 0,
   last_updated       |-> ts,
   features |-> [slash_commands        |-> [name |-> "Slash Commands", completion |-> 0],
                 custom_server_support |-> [name |-> "Custom Server Support", completion |-> 0],
                 server_cards          |-> [name |-> "Server Cards", completion |-> 0],
                 npm_package           |-> [name |-> "NPM Package Deployment", completion |-> 0]],
   todos    |-> NoTodos]

NoStatus == [exists |-> FALSE, doc |-> getDefaultStatus(0)]

\* readStatus(): the document on disk, or the default one when there is none
readStatus(file, ts) == IF file.exists THEN file.doc ELSE getDefaultStatus(ts)

\* the completion of each feature: feature.completion
CompletionsOf(features) == [k \in DOMAIN features |-> features[k].completion]

\* validateStatus(status): project, overall_completion and features must be
\* truthy, every feature needs a name and a numeric completion
validateStatus(status) ==
  /\ status.project # ""
  /\ status.overall_completion # 0
  /\ \A k \in DOMAIN status.features : status.features[k].name # ""

\* { ...currentStatus, ...updates }
Merge(currentStatus, updates) ==
  [f \in DOMAIN currentStatus \cup DOMAIN updates |->
     IF f \in DOMAIN updates THEN updates[f] ELSE currentStatus[f]]

\* backupStatus(): nothing when there is no file, else copy and clean up
backupStatus(dir, file, ts) ==
  IF file.exists THEN cleanupBackups(CopyTo(dir, file, ts)) ELSE dir

\* updateStatus(updates): read, merge, stamp, validate, back up, write
updateStatus(file, dir, updates, ts) ==
  LET currentStatus == readStatus(file, ts)
      newStatus     == [Merge(currentStatus, updates) EXCEPT !.last_updated = ts]
  IN IF ~validateStatus(newStatus)
     THEN [file |-> file, dir |-> dir, result |-> "Invalid status structure"]
     ELSE [file   |-> [exists |-> TRUE, doc |-> newStatus],
           dir    |-> backupStatus(dir, file, ts),
           result |-> "ok"]

\* readStatus with its catch: the default document when the file is missing
\* or unreadable
readStatusIO(file, ts, io) ==
  LET r == IF file.exists
           THEN (IF io.read THEN [threw |-> FALSE, value |-> file.doc]
                 ELSE [threw |-> TRUE, value |-> getDefaultStatus(ts)])
           ELSE [threw |-> FALSE, value |-> getDefaultStatus(ts)]
  IN IF r.threw THEN [threw |-> FALSE, value |-> getDefaultStatus(ts)] ELSE r

\* backupStatus with its catch
backupStatusIO(dir, file, ts, io) ==
  IF ~file.exists \/ ~io.copy THEN dir
  ELSE cleanupBackupsIO(CopyTo(dir, file, ts), io)

\* updateStatus when calls may fail: a failed write is thrown again
updateStatusIO(file, dir, updates, ts, io) ==
  LET currentStatus == readStatusIO(file, ts, io).value
      newStatus     == [Merge(currentStatus, updates) EXCEPT !.last_updated = ts]
  IN IF ~validateStatus(newStatus)
     THEN [file |-> file, dir |-> dir, result |-> "Invalid status structure"]
     ELSE IF io.write
          THEN [file   |-> [exists |-> TRUE, doc |-> newStatus],
                dir    |-> backupStatusIO(dir, file, ts, io),
                result |-> "ok"]
          ELSE [file   |-> file,
                dir    |-> backupStatusIO(dir, file, ts, io),
                result |-> "write failed"]

\* updateFeatureCompletion(featureKey, completion)
updateFeatureCompletion(file, dir, featureKey, completion, ts) ==
  LET status == readStatus(file, ts)
  IN IF featureKey \notin DOMAIN status.features
     THEN [file |-> file, dir |-> dir, result |-> "Feature not found"]
     ELSE LET features == [status.features EXCEPT ![featureKey].completion = completion]
          IN updateStatus(file, dir,
               [status EXCEPT !.features = features,
                              !.overall_completion =
                                 statusCalculateOverallCompletion(CompletionsOf(features))],
               ts)

\* the index of the first entry of list with the given id, 0 when none
FindIndex(list, todoId) ==
  IF \E i \in 1..Len(list) : list[i] = todoId
  THEN CHOOSE i \in 1..Len(list) :
         list[i] = todoId /\ \A j \in 1..(i - 1) : list[j] # todoId
  ELSE 0

\* list.splice(index, 1)
Splice(list, index) ==
  [i \in 1..(Len(list) - 1) |-> IF i < index THEN list[i] ELSE list[i + 1]]

\* the first of the three lists that holds the id, 0 when none does
HoldingList(todos, todoId) ==
  IF \E n \in 1..3 : FindIndex(todos[TodoLists[n]], todoId) # 0
  THEN CHOOSE n \in 1..3 :
         /\ FindIndex(todos[TodoLists[n]], todoId) # 0
         /\ \A m \in 1..(n - 1) : FindIndex(todos[TodoLists[m]], todoId) = 0
  ELSE 0

\* the list a requested state names
TargetList(newStatus) ==
  IF newStatus = "completed" THEN "completed_today"
  ELSE IF newStatus = "in_progress" THEN "in_progress"
  ELSE "pending"

\* a mutation of MoveTodo: the item is pushed without being taken out
MoveTodoKeep(todos, todoId, newStatus) ==
  [todos EXCEPT ![TargetList(newStatus)] = Append(@, todoId)]

\* a mutation of MoveTodo: an item is never moved to an earlier list
MoveTodoForwardOnly(todos, todoId, newStatus) ==
  LET n == HoldingList(todos, todoId)
      t == CHOOSE m \in 1..3 : TodoLists[m] = TargetList(newStatus)
      removed == IF n = 0 THEN todos
                 ELSE [todos EXCEPT ![TodoLists[n]] =
                         Splice(@, FindIndex(@, todoId))]
  IN [removed EXCEPT ![TodoLists[IF t < n THEN n ELSE t]] = Append(@, todoId)]

\* the todo lists after the item is taken out of the list that holds it and
\* pushed onto the list the requested state names
MoveTodo(todos, todoId, newStatus) ==
  LET n       == HoldingList(todos, todoId)
      removed == IF n = 0 THEN todos
                 ELSE [todos EXCEPT ![TodoLists[n]] =
                         Splice(@, FindIndex(@, todoId))]
  IN [removed EXCEPT ![TargetList(newStatus)] = Append(@, todoId)]

\* the position of a list along pending, in_progress, completed_today
ListRank(todos, todoId) == HoldingList(todos, todoId)

\* updateTodoStatus(todoId, newStatus).  With todos stored as a flat list,
\* status.todos[list] is undefined and findIndex throws.
updateTodoStatus(file, dir, todoId, newStatus, ts) ==
  LET status == readStatus(file, ts)
  IN IF status.todos.shape # "lists"
     THEN [file |-> file, dir |-> dir, result |-> "TypeError"]
     ELSE updateStatus(file, dir,
            [status EXCEPT !.todos = MoveTodo(status.todos, todoId, newStatus)], ts)

----------------------------------------------------------------------------
(* generateServerConfig: the instance configuration made from a card        *)

\* longest argument list explored
MaxArgs == 2

\* the strings of a command or an argument: a literal one and one placeholder
\* for each variable
Placeholder == [API_KEY |-> "${API_KEY}", TOKEN |-> "${TOKEN}"]
ArgStrings == {"--flag"} \cup {Placeholder[n] : n \in EnvNames}

\* card.deploy.kind and card.deploy.command; "undefined" is a missing field
DeployKinds == {"docker", "npx", "native", "custom", "undefined"}
DeployCommands == {"undefined", "uvx", "http://host/sse", "${API_KEY}"}

DeployCards ==
  [hasDeploy : BOOLEAN, kind : DeployKinds, deployCommand : DeployCommands,
   args : SeqsUpTo(ArgStrings, MaxArgs), command : {"undefined", "run"},
   envSchema : {<<>>, <<[name |-> "API_KEY"]>>}]

\* arg.replace(/\$\{([^}]+)\}/g, ...): a placeholder becomes the value given
\* for its variable when that value is truthy, and stays otherwise
ReplacePlaceholder(arg, envVars) ==
  IF \E n \in EnvNames : arg = Placeholder[n] /\ Truthy(envVars[n])
  THEN envVars[CHOOSE n \in EnvNames : arg = Placeholder[n]]
  ELSE arg

\* x || y for strings
OrElse(x, y) == IF x = "undefined" \/ x = "" THEN y ELSE x

ManualMessage == <<"Custom server - manual configuration required">>

\* config.env: the provided value or the placeholder for every schema entry
ConfigEnv(card, envVars) ==
  [i \in 1..Len(card.envSchema) |->
     [name  |-> card.envSchema[i].name,
      value |-> OrElse(envVars[card.envSchema[i].name],
                       Placeholder[card.envSchema[i].name])]]

Config(command, args, transport, card, envVars) ==
  [threw |-> FALSE, command |-> command, args |-> args, transport |-> transport,
   env |-> ConfigEnv(card, envVars)]

Thrown == [threw |-> TRUE, command |-> "undefined", args |-> <<>>,
           transport |-> "undefined", env |-> <<>>]

\* generateServerConfig(card, envVars).  Reading card.deploy.kind of a card
\* without deploy, and calling startsWith on a missing command, throw.
generateServerConfig(card, envVars) ==
  IF ~card.hasDeploy THEN Thrown
  ELSE IF card.kind = "docker"
  THEN Config(OrElse(card.deployCommand, "docker"),
              [i \in 1..Len(card.args) |-> ReplacePlaceholder(card.args[i], envVars)],
              "undefined", card, envVars)
  ELSE IF card.kind = "npx"
  THEN Config(OrElse(card.deployCommand, "npx"), card.args, "undefined", card, envVars)
  ELSE IF card.kind = "native"
  THEN (IF card.deployCommand = "uvx"
        THEN Config("uvx", card.args, "undefined", card, envVars)
        ELSE IF card.deployCommand = "undefined" THEN Thrown
        ELSE IF card.deployCommand = "http://host/sse"
        THEN Config(card.deployCommand, <<>>, "http", card, envVars)
        ELSE Config(card.deployCommand, card.args, "undefined", card, envVars))
  ELSE IF card.deployCommand # "undefined"
  THEN Config(card.deployCommand, card.args, "undefined", card, envVars)
  ELSE IF card.command # "undefined"
  THEN Config(card.command, <<>>, "undefined", card, envVars)
  ELSE Config("echo", ManualMessage, "undefined", card, envVars)

----------------------------------------------------------------------------
(* Loading the cards: the catalog first, then the user's custom cards       *)

\* most files explored in each of the two directories
MaxFiles == 2

LoadIds == {"github", "custom-x"}

\* a card file: whether it parses, the id of the card in it, and whether the
\* card passes the schema validator
MalformedFile == [parses |-> FALSE, id |-> "none", valid |-> FALSE]
CardFiles == {MalformedFile} \cup [parses : {TRUE}, id : LoadIds, valid : BOOLEAN]

\* this.cards.set(id, card): the entry is replaced in place, or appended
CardsSet(cards, card) ==
  IF \E i \in 1..Len(cards) : cards[i].id = card.id
  THEN [i \in 1..Len(cards) |-> IF cards[i].id = card.id THEN card ELSE cards[i]]
  ELSE Append(cards, card)

\* loadCard(filename): a file that does not parse or a card the validator
\* rejects is logged and skipped
loadCard(cards, file) ==
  IF ~file.parses THEN cards
  ELSE IF ~file.valid THEN cards
  ELSE CardsSet(cards, [id |-> file.id, custom |-> FALSE, valid |-> file.valid])

\* loadAllCards(): loadCard for every file of the catalog directory
RECURSIVE loadAllCards(_, _)
loadAllCards(cards, dirFiles) ==
  IF dirFiles = <<>> THEN cards
  ELSE loadAllCards(loadCard(cards, dirFiles[1]), Tail(dirFiles))

\* loadCustomCards(): every file that parses is marked custom and set into
\* the collection; the validator is not called
RECURSIVE loadCustomCards(_, _)
loadCustomCards(cards, dirFiles) ==
  IF dirFiles = <<>> THEN cards
  ELSE loadCustomCards(
         IF dirFiles[1].parses
         THEN CardsSet(cards, [id |-> dirFiles[1].id, custom |-> TRUE,
                               valid |-> dirFiles[1].valid])
         ELSE cards,
         Tail(dirFiles))

\* initialize(): the catalog, then the custom cards
initialize(catalogFiles, customFiles) ==
  loadCustomCards(loadAllCards(<<>>, catalogFiles), customFiles)

----------------------------------------------------------------------------
(* The command wrappers and the scripts they spawn                          *)

CommandNames == {"add", "reconfigure", "list"}
ServerNames == {"github", "serena"}

\* the add script: exit(1) for a name not in the catalog, exit(0) when the
\* user declines to reconfigure a configured server, else it runs to its end
addScript(serverName, catalog, configured, overwrite) ==
  IF serverName \notin catalog THEN 1
  ELSE IF serverName \in configured /\ ~overwrite THEN 0
  ELSE 0

\* the reconfigure script: a server that is not configured is reported and
\* the function returns
reconfigureScript(serverName, configured) ==
  IF serverName \notin configured THEN 0 ELSE 0

\* BaseCommand.run(args): the exit code of the process.  execute() returns
\* after this.error() when the name is missing; a spawned script that exits
\* non-zero rejects the promise and run() exits with 1.
run(command, serverName, help, catalog, configured, overwrite) ==
  IF help THEN 0
  ELSE IF command = "list" THEN 0
  ELSE IF serverName = "none" THEN 0
  ELSE IF command = "add"
  THEN (IF addScript(serverName, catalog, configured, overwrite) = 0 THEN 0 ELSE 1)
  ELSE (IF reconfigureScript(serverName, configured) = 0 THEN 0 ELSE 1)

----------------------------------------------------------------------------
(* Recommendations: ProjectAnalyzer and AdvisoryEngine                      *)

\* the core servers that analyze() always adds
CoreServers == {"serena", "sequentialthinking", "memory"}

\* the dependencies explored, and the entries of techPatterns and of
\* projectTypes they can match (the other entries match nothing here)
Dependencies == {"react", "express", "mongodb"}

TechServers ==
  [react   |-> {"context7", "firecrawl", "brave-search"},
   express |-> {"postgres", "sequentialthinking"},
   mongodb |-> {"memory"}]

ProjectTypeOrder == <<"webApp", "api", "infrastructure">>

ProjectTypeIndicator ==
  [webApp |-> "react", api |-> "express", infrastructure |-> "docker"]

ProjectTypeServers ==
  [webApp |-> {"puppeteer", "playwright", "firecrawl"},
   api |-> {"postgres", "brave-search"},
   infrastructure |-> {"docker-mcp-toolkit"}]

Projects ==
  [hasGitRepo : BOOLEAN, hasPackageJson : BOOLEAN, hasDockerfile : BOOLEAN,
   dependencies : SUBSET Dependencies]

\* detected.dependencies and detected.technologies of a project
DetectedDependencies(project) ==
  IF project.hasPackageJson THEN project.dependencies ELSE {}

DetectedTechnologies(project) ==
  (IF project.hasPackageJson THEN {"javascript"} ELSE {})
    \cup DetectedDependencies(project)
    \cup (IF project.hasDockerfile THEN {"docker"} ELSE {})

\* determineProjectType: 2 for an indicator among the technologies, 1 for one
\* among the dependencies; the first type with the highest positive score
TypeScore(type, technologies, dependencies) ==
  (IF ProjectTypeIndicator[type] \in technologies THEN 2 ELSE 0)
    + (IF ProjectTypeIndicator[type] \in dependencies THEN 1 ELSE 0)

determineProjectType(technologies, dependencies) ==
  LET score(i) == TypeScore(ProjectTypeOrder[i], technologies, dependencies)
      best == {i \in 1..Len(ProjectTypeOrder) :
                 /\ score(i) > 0
                 /\ \A j \in 1..Len(ProjectTypeOrder) :
                      score(j) < score(i) \/ (score(j) = score(i) /\ j >= i)}
  IN IF best = {} THEN "generic"
     ELSE ProjectTypeOrder[CHOOSE i \in best : TRUE]

\* analyze() without the last step that adds the core servers
analyzeWithoutCore(project) ==
  LET technologies == DetectedTechnologies(project)
      dependencies == DetectedDependencies(project)
      projectType == determineProjectType(technologies, dependencies)
  IN [hasGitRepo |-> project.hasGitRepo,
      technologies |-> technologies,
      projectType |-> projectType,
      recommendedServers |->
        (IF project.hasGitRepo THEN {"github-official"} ELSE {})
          \cup UNION {TechServers[d] : d \in dependencies}
          \cup (IF project.hasDockerfile THEN {"docker-mcp-toolkit"} ELSE {})
          \cup (IF projectType = "generic" THEN {}
                ELSE ProjectTypeServers[projectType])]

\* ProjectAnalyzer.analyze(projectPath)
analyze(project) ==
  LET detected == analyzeWithoutCore(project)
  IN [detected EXCEPT !.recommendedServers = @ \cup CoreServers]

\* getOptionalServers(analysis)
getOptionalServers(analysis) ==
  (IF analysis.hasGitRepo THEN {"slack"} ELSE {})
    \cup (IF "markdown" \in analysis.technologies THEN {"notion"} ELSE {})
    \cup (IF analysis.projectType \in {"api", "webApp"} THEN {"atlassian"} ELSE {})

\* ProjectAnalyzer.getRecommendations(): analysed is false before analyze()
getRecommendations(analysed, analysis) ==
  IF ~analysed
  THEN [essential |-> CoreServers,
        recommended |-> {"github-official", "context7"}, optional |-> {}]
  ELSE [essential |-> CoreServers,
        recommended |-> analysis.recommendedServers \ CoreServers,
        optional |-> getOptionalServers(analysis)]

\* what the advisory engine reads of a project analysis
FileCounts == {0, 10, 1001}

Analyses ==
  [hasGitHistory : BOOLEAN, fileCount : FileCounts, hasLegacyPatterns : BOOLEAN,
   webFramework : BOOLEAN, hasDatabaseConfig : BOOLEAN, hasE2ETests : BOOLEAN,
   hasDocumentation : BOOLEAN]

\* the advisoryRules that detectProjectType can select here
AdvisoryRules ==
  [greenfield |-> [essential |-> {"serena", "sequentialthinking", "github-official"},
                   recommended |-> {"memory", "context7"}],
   legacy |-> [essential |-> {"serena", "memory"},
               recommended |-> {"sequentialthinking", "github-official", "atlassian"}],
   webDevelopment |-> [essential |-> {"firecrawl", "context7"},
                       recommended |-> {"playwright", "puppeteer"}]]

\* AdvisoryEngine.detectProjectType(analysis)
detectProjectType(analysis) ==
  IF ~analysis.hasGitHistory \/ analysis.fileCount < 10 THEN "greenfield"
  ELSE IF analysis.fileCount > 1000 \/ analysis.hasLegacyPatterns THEN "legacy"
  ELSE IF analysis.webFramework THEN "webDevelopment"
  ELSE "null"

\* getTechnologyRecommendations(analysis, configuredServers, allCards)
getTechnologyRecommendations(analysis, configuredServers, cardNames) ==
  (IF analysis.hasDatabaseConfig /\ "postgres" \notin configuredServers
   THEN {"postgres"} \cap cardNames ELSE {})
    \cup (IF analysis.hasE2ETests /\ "playwright" \notin configuredServers
          THEN {"playwright"} \cap cardNames ELSE {})
    \cup (IF /\ analysis.hasDocumentation
             /\ "notion" \notin configuredServers
             /\ "confluence" \notin configuredServers
          THEN {"notion"} \cap cardNames ELSE {})

\* AdvisoryEngine.getServerRecommendations(projectAnalysis, currentConfig):
\* the names recommended; a server is recommended only when it is not
\* configured and a card has its name
getServerRecommendations(analysis, configuredServers, cardNames) ==
  LET projectType == detectProjectType(analysis)
      byType == IF projectType = "null" THEN {}
                ELSE AdvisoryRules[projectType].essential
                       \cup AdvisoryRules[projectType].recommended
  IN ((byType \ configuredServers) \cap cardNames)
       \cup getTechnologyRecommendations(analysis, configuredServers, cardNames)

----------------------------------------------------------------------------
(* add-custom: the foundation servers come first                            *)

\* most entries explored in minimum.required
MaxRequired == 2

\* an entry of minimum.required: the server and its alternatives
RequiredEntries == [id : {"serena", "context7"}, alternatives : SUBSET {"github-official"}]

\* the minimum servers file: whether it loads, and its required list
MinimumFiles == [loads : BOOLEAN, required : SeqsUpTo(RequiredEntries, MaxRequired)]

FoundationIds == {"serena", "context7", "github-official"}

\* required entry satisfied: it or one of its alternatives is configured
IsSatisfied(required, configuredIds) ==
  required.id \in configuredIds \/ required.alternatives \cap configuredIds # {}

\* validate() that looks at the first required entry only
validateFirstRequired(minimum, configuredIds) ==
  IF ~minimum.loads THEN [isValid |-> FALSE, missing |-> <<>>]
  ELSE LET missingRequired ==
             SelectSeq(IF minimum.required = <<>> THEN <<>> ELSE <<minimum.required[1]>>,
                       LAMBDA r : ~IsSatisfied(r, configuredIds))
       IN [isValid |-> missingRequired = <<>>, missing |-> missingRequired]

\* MinimumServersValidator.validate(): isValid and missing (the recommended
\* servers only add warnings)
validate(minimum, configuredIds) ==
  IF ~minimum.loads THEN [isValid |-> FALSE, missing |-> <<>>]
  ELSE LET missingRequired ==
             SelectSeq(minimum.required, LAMBDA r : ~IsSatisfied(r, configuredIds))
       IN [isValid |-> missingRequired = <<>>, missing |-> missingRequired]

\* the card add-custom builds: it has a deployment field and no deploy field
CustomCard ==
  [hasDeploy |-> FALSE, kind |-> "undefined", deployCommand |-> "undefined",
   args |-> <<>>, command |-> "undefined", envSchema |-> <<>>]

\* addCustom(): exit(1) when the validation fails; else the card is saved,
\* the configuration is generated and added to the settings; any error ends
\* in exit(1)
addCustom(minimum, configuredIds) ==
  LET validation == validate(minimum, configuredIds)
      serverConfig == generateServerConfig(CustomCard, [n \in EnvNames |-> "undef"])
  IN IF ~validation.isValid
     THEN [exitCode |-> 1, cardSaved |-> FALSE, settingsWritten |-> FALSE,
           reported |-> validation.missing]
     ELSE IF serverConfig.threw
     THEN [exitCode |-> 1, cardSaved |-> TRUE, settingsWritten |-> FALSE,
           reported |-> <<>>]
     ELSE [exitCode |-> 0, cardSaved |-> TRUE, settingsWritten |-> TRUE,
           reported |-> <<>>]

----------------------------------------------------------------------------
(* reconfigure: mergeConfigurations                                         *)

\* longest argument list of a configured server explored
MaxCurrentArgs == 3

\* an argument is the text before an optional "=" and what follows it:
\* "none" for no "=", "abc" for a literal value, "$" for a reference to the
\* variable of the same name
Arg(text, eq) == [text |-> text, eq |-> eq]
DashE == Arg("-e", "none")
CurrentArgs ==
  {DashE, Arg("API_KEY", "none"), Arg("API_KEY", "abc"), Arg("TOKEN", "$"),
   Arg("old/image", "none")}

\* in the argument list of a configured server every "-e" is followed by the
\* argument it introduces
WellFormedArgs(args) ==
  \A i \in 1..Len(args) :
    args[i] = DashE => (i < Len(args) /\ args[i + 1] # DashE)

CurrentConfigs ==
  [command : {"docker"},
   args : {a \in SeqsUpTo(CurrentArgs, MaxCurrentArgs) : WellFormedArgs(a)},
   url : {"undefined"}]

\* a card as mergeConfigurations reads it; envSchema holds the declared names
\* and is either an object keyed by name or an array of entries
EnvOrder == <<"API_KEY", "TOKEN">>
MergeCards ==
  [transport : {"stdio", "http"}, runtime : {"npx", "docker", "uvx", "node"},
   declared : SUBSET EnvNames, schemaForm : {"object", "array"},
   defaultUrl : {"undefined", "http://card"}]

DeclaredSeq(card) == SelectSeq(EnvOrder, LAMBDA n : n \in card.declared)

\* Object.keys(serverCard.envSchema): the names of an object, the indices of
\* an array
IndexKeys == <<"0", "1">>
ObjectKeys(card) ==
  IF card.schemaForm = "object" THEN DeclaredSeq(card)
  ELSE SubSeq(IndexKeys, 1, Len(DeclaredSeq(card)))

\* the loop over current.args: every "-e" before the last position is kept
\* with the argument after it, which is then skipped
RECURSIVE ExistingEnvArgs(_, _)
ExistingEnvArgs(args, i) ==
  IF i > Len(args) - 1 THEN <<>>
  ELSE IF args[i] = DashE
  THEN <<DashE, args[i + 1]>> \o ExistingEnvArgs(args, i + 2)
  ELSE ExistingEnvArgs(args, i + 1)

\* existingEnvArgs.some(...): a "-e" followed by an argument that starts with
\* the variable and "="
Exists(existingEnvArgs, envVar) ==
  \E idx \in 1..Len(existingEnvArgs) :
    /\ existingEnvArgs[idx] = DashE
    /\ idx + 1 <= Len(existingEnvArgs)
    /\ existingEnvArgs[idx + 1].text = envVar
    /\ existingEnvArgs[idx + 1].eq # "none"

RECURSIVE NewEnvArgs(_, _)
NewEnvArgs(keys, existingEnvArgs) ==
  IF keys = <<>> THEN <<>>
  ELSE (IF Exists(existingEnvArgs, keys[1]) THEN <<>>
        ELSE <<DashE, Arg(keys[1], "$")>>)
         \o NewEnvArgs(Tail(keys), existingEnvArgs)

\* mergeConfigurations(current, serverCard), the metadata aside
mergeConfigurations(current, card) ==
  IF card.transport = "stdio"
  THEN (IF card.runtime = "npx"
        THEN [current EXCEPT !.command = "npx", !.args = <<Arg("card-package", "none")>>]
        ELSE IF card.runtime = "docker"
        THEN LET existingEnvArgs == ExistingEnvArgs(current.args, 1)
             IN [current EXCEPT !.command = "docker",
                   !.args = <<Arg("run", "none"), Arg("-i", "none"), Arg("--rm", "none")>>
                              \o existingEnvArgs
                              \o NewEnvArgs(ObjectKeys(card), existingEnvArgs)
                              \o <<Arg("card/image", "none")>>]
        ELSE IF card.runtime = "uvx"
        THEN [current EXCEPT !.command = "uvx", !.args = <<Arg("card-package", "none")>>]
        ELSE current)
  ELSE [current EXCEPT !.url = IF card.defaultUrl # "undefined" THEN card.defaultUrl
                                ELSE IF @ # "undefined" THEN @
                                ELSE "http://localhost:3000"]

----------------------------------------------------------------------------
(* BaseCommand.parseArgs and the help flag                                  *)

\* longest argument list explored
MaxArgv == 3

\* the arguments explored; the empty string is the one falsy argument
ArgvTokens == {"--help", "-h", "--scope", "github", ""}

StartsWithDashDash(arg) == arg \in {"--help", "--scope"}
StartsWithDash(arg) == arg \in {"--help", "--scope", "-h"}

\* arg.slice(2) of a long flag and arg.slice(1) of a short one
FlagKey == [x \in {"--help", "--scope", "-h"} |->
              IF x = "--help" THEN "help" ELSE IF x = "--scope" THEN "scope" ELSE "h"]
FlagKeys == {"help", "scope", "h"}

NoFlags == [positional |-> <<>>, flags |-> [k \in FlagKeys |-> "undefined"]]

\* parseArgs that knows long flags only
RECURSIVE parseArgsLongOnly(_, _, _)
parseArgsLongOnly(args, i, parsed) ==
  IF i > Len(args) THEN parsed
  ELSE IF StartsWithDashDash(args[i])
  THEN (IF i + 1 <= Len(args) /\ args[i + 1] # "" /\ ~StartsWithDash(args[i + 1])
        THEN parseArgsLongOnly(args, i + 2,
               [parsed EXCEPT !.flags[FlagKey[args[i]]] = args[i + 1]])
        ELSE parseArgsLongOnly(args, i + 1,
               [parsed EXCEPT !.flags[FlagKey[args[i]]] = "true"]))
  ELSE parseArgsLongOnly(args, i + 1,
         [parsed EXCEPT !.positional = Append(@, args[i])])

\* parseArgs(args), from position i on: a long flag takes the next argument
\* as its value unless that is missing, empty or starts with "-"
RECURSIVE parseArgs(_, _, _)
parseArgs(args, i, parsed) ==
  IF i > Len(args) THEN parsed
  ELSE IF StartsWithDashDash(args[i])
  THEN (IF i + 1 <= Len(args) /\ args[i + 1] # "" /\ ~StartsWithDash(args[i + 1])
        THEN parseArgs(args, i + 2,
               [parsed EXCEPT !.flags[FlagKey[args[i]]] = args[i + 1]])
        ELSE parseArgs(args, i + 1,
               [parsed EXCEPT !.flags[FlagKey[args[i]]] = "true"]))
  ELSE IF StartsWithDash(args[i])
  THEN parseArgs(args, i + 1, [parsed EXCEPT !.flags[FlagKey[args[i]]] = "true"])
  ELSE parseArgs(args, i + 1, [parsed EXCEPT !.positional = Append(@, args[i])])

\* parsed.flags.help || parsed.flags.h
HelpFlag(parsed) ==
  (parsed.flags["help"] \notin {"undefined", ""})
    \/ (parsed.flags["h"] \notin {"undefined", ""})

\* BaseCommand.run(args) up to the call of execute
runArgs(args) ==
  LET parsed == parseArgs(args, 1, NoFlags)
  IN [showedHelp |-> HelpFlag(parsed), executed |-> ~HelpFlag(parsed),
      parsed |-> parsed]

----------------------------------------------------------------------------
(* ClaudeMdGenerator.getServerStatus                                        *)

\* the variables of an env object as validateEnvVars reads them: a missing
\* key, an empty value or a text
ProvidedFrom(obj) ==
  [n \in EnvNames |->
     IF n \notin Keys(obj) THEN "undef"
     ELSE IF Get(obj, n) = <<>> THEN "" ELSE "secret"]

\* readProjectEnv() is called without await: the result is a pending
\* promise, which has no property named after a variable
PendingPromise == [n \in EnvNames |-> "undef"]

\* getServerStatus(server, card); hasCard is false for a server without card
getServerStatus(hasCard, card, file) ==
  LET projectEnv == PendingPromise
  IN IF hasCard /\ ~validateEnvVars(card, projectEnv).valid
     THEN "missing-env"
     ELSE "configured"

----------------------------------------------------------------------------
(* ConfigManager.getServerConfig and updateServerScope                      *)

\* the text a template literal makes of null
NullText == <<"n", "u", "l", "l">>

\* process.env: the value of each variable, empty when it is not set
ProcessEnvs == [EnvNames -> {<<>>, <<"a">>}]

\* the value of a variable in an env object, empty when it has no entry
ValueIn(obj, n) == IF n \in Keys(obj) THEN Get(obj, n) ELSE <<>>

\* hasEnvOverrides(serverConfig, projectEnv): some placeholder of the
\* configuration has a truthy value in the project file
hasEnvOverrides(placeholders, projectEnv) ==
  \E i \in 1..Len(placeholders) : ValueIn(projectEnv, placeholders[i]) # <<>>

\* getServerConfig(serverId) of a configured server: envVars[varName] =
\* projectEnv[varName] || process.env[varName] || null, as the text that
\* writeProjectEnv makes of each value
getServerConfig(placeholders, envFile, processEnv) ==
  LET projectEnv == readProjectEnv(envFile)
  IN [scope |-> IF hasEnvOverrides(placeholders, projectEnv) THEN "project" ELSE "global",
      envVars |-> [i \in 1..Len(placeholders) |->
                     [key |-> placeholders[i],
                      value |-> IF ValueIn(projectEnv, placeholders[i]) # <<>>
                                THEN ValueIn(projectEnv, placeholders[i])
                                ELSE IF processEnv[placeholders[i]] # <<>>
                                THEN processEnv[placeholders[i]]
                                ELSE NullText]]]

\* updateServerScope(serverId, newScope): the project variable file after
\* the call
updateServerScope(configured, placeholders, envFile, dir, processEnv, newScope, ts) ==
  LET serverConfig == getServerConfig(placeholders, envFile, processEnv)
  IN IF ~configured
     THEN [threw |-> TRUE, file |-> envFile, dir |-> dir]
     ELSE IF serverConfig.scope = newScope
     THEN [threw |-> FALSE, file |-> envFile, dir |-> dir]
     ELSE IF newScope = "project" /\ Len(serverConfig.envVars) > 0
     THEN LET w == writeProjectEnv(envFile, dir, serverConfig.envVars, ts)
          IN [threw |-> FALSE, file |-> w.file, dir |-> w.dir]
     ELSE [threw |-> FALSE, file |-> envFile, dir |-> dir]

----------------------------------------------------------------------------
(* Specifications: one per component, all over the same variables          *)

NoFiles == [claude |-> NoGlobal, env |-> NoEnv, status |-> NoStatus]
NoBackups == [claude |-> {}, env |-> {}, status |-> {}]
NoBacked == [claude |-> {}, env |-> {}, status |-> {}]
NoInput == [op |-> "none"]
NoOutput == [op |-> "none"]
NoCall == [op |-> "none", file |-> "none", id |-> "none", to |-> "none",
           result |-> "none", at |-> 0]

ValInit ==
  /\ vCard \in Cards
  /\ vProvided \in [EnvNames -> ProvidedValues]
  /\ vResult = NoResult
  /\ rCards = <<>> /\ rConfigured = {} /\ rOut = NoRank
  /\ oFeatures = <<>> /\ oOut = NoCalc
  /\ now = 0 /\ steps = 0 /\ files = NoFiles /\ backups = NoBackups
  /\ everBacked = NoBacked /\ prevFiles = NoFiles /\ last = NoCall
  /\ cIn = NoInput /\ cOut = NoOutput

\* the caller validates the card against the provided variables
Validate ==
  /\ vResult = NoResult
  /\ vResult' = validateEnvVars(vCard, vProvided)
  /\ UNCHANGED <<vCard, vProvided>>
  /\ UNCHANGED <<rankVars, calcVars, diskVars, callVars>>

ValNext == Validate

SpecValidate == ValInit /\ [][ValNext]_vars

\* a store with more cards than the list command shows
WideStore ==
  [i \in 1..(TopAvailable + 1) |->
     [id |-> CardIds[i], rated |-> TRUE, aiAgentRating |-> 1 + (i % 5),
      humanVerificationRating |-> 1 + ((2 * i) % 5)]]

RankInit ==
  /\ rCards \in Stores \cup {WideStore}
  /\ rConfigured \in SUBSET {CardIds[i] : i \in 1..MaxCards}
  /\ rOut = NoRank
  /\ vCard = [hasSchema |-> FALSE, envSchema |-> <<>>]
  /\ vProvided = [n \in EnvNames |-> "undef"]
  /\ vResult = NoResult
  /\ oFeatures = <<>> /\ oOut = NoCalc
  /\ now = 0 /\ steps = 0 /\ files = NoFiles /\ backups = NoBackups
  /\ everBacked = NoBacked /\ prevFiles = NoFiles /\ last = NoCall
  /\ cIn = NoInput /\ cOut = NoOutput

\* a caller asks for the score of one card of the store
GetAgenticScore ==
  /\ rOut.op = "none"
  /\ \E i \in 1..Len(rCards) :
       rOut' = [op |-> "score", arg |-> rCards[i].id,
                score |-> getAgenticScore(rCards[i]), list |-> <<>>]
  /\ UNCHANGED <<rCards, rConfigured>>
  /\ UNCHANGED <<valVars, calcVars, diskVars, callVars>>

\* the list command formats the available servers
ListAvailable ==
  /\ rOut.op = "none"
  /\ rOut' = [op |-> "list", arg |-> "none", score |-> ZeroDouble,
              list |-> availableList(rCards, rConfigured)]
  /\ UNCHANGED <<rCards, rConfigured>>
  /\ UNCHANGED <<valVars, calcVars, diskVars, callVars>>

\* a caller asks for recommendations for a use case
RecommendServers ==
  /\ rOut.op = "none"
  /\ \E kw \in Keywords :
       rOut' = [op |-> "recommend", arg |-> kw, score |-> ZeroDouble,
                list |-> recommendServers(rCards, kw)]
  /\ UNCHANGED <<rCards, rConfigured>>
  /\ UNCHANGED <<valVars, calcVars, diskVars, callVars>>

RankNext == GetAgenticScore \/ ListAvailable \/ RecommendServers

SpecRank == RankInit /\ [][RankNext]_vars

CalcInit ==
  /\ oFeatures \in FeatureMaps
  /\ oOut = NoCalc
  /\ vCard = [hasSchema |-> FALSE, envSchema |-> <<>>]
  /\ vProvided = [n \in EnvNames |-> "undef"]
  /\ vResult = NoResult
  /\ rCards = <<>> /\ rConfigured = {} /\ rOut = NoRank
  /\ now = 0 /\ steps = 0 /\ files = NoFiles /\ backups = NoBackups
  /\ everBacked = NoBacked /\ prevFiles = NoFiles /\ last = NoCall
  /\ cIn = NoInput /\ cOut = NoOutput

\* init-status computes the overall completion, weighted or not
CalculateOverall ==
  /\ oOut.op = "none"
  /\ \E useWeighted \in BOOLEAN :
       oOut' = [op |-> IF useWeighted THEN "weighted" ELSE "mean",
                value |-> calculateOverallCompletion(oFeatures, useWeighted)]
  /\ UNCHANGED <<oFeatures, valVars, rankVars, diskVars, callVars>>

\* the status manager computes the overall completion
StatusCalculateOverall ==
  /\ oOut.op = "none"
  /\ oOut' = [op |-> "status", value |-> statusCalculateOverallCompletion(oFeatures)]
  /\ UNCHANGED <<oFeatures, valVars, rankVars, diskVars, callVars>>

CalcNext == CalculateOverall \/ StatusCalculateOverall

SpecCalc == CalcInit /\ [][CalcNext]_vars

\* the three files, with the backups each had before the first call: an
\* aged file has MaxBackups - 1 earlier backups, taken at times 1, 2, ...
StartTime == MaxBackups

OldGlobal == [exists |-> TRUE, mcpServers |-> {}]
OldEnv == [exists |-> TRUE, text |-> <<>>]

\* a status document the status manager has written
TrackedDoc ==
  LET features == [slash_commands        |-> [name |-> "Slash Commands", completion |-> 100],
                   custom_server_support |-> [name |-> "Custom Server Support", completion |-> 50],
                   server_cards          |-> [name |-> "Server Cards", completion |-> 40],
                   npm_package           |-> [name |-> "NPM Package Deployment", completion |-> 60]]
  IN [project            |-> "mcp-helper",
      overall_completion |-> statusCalculateOverallCompletion(CompletionsOf(features)),
      last_updated       |-> 0,
      features           |-> features,
      todos              |-> [NoTodos EXCEPT !.pending = <<"t1">>]]

\* a status document the init-status command has written
InitStatusDoc ==
  LET features == [core_functionality |-> [name |-> "Core Functionality", completion |-> 50],
                   testing            |-> [name |-> "Testing", completion |-> 30]]
  IN [project            |-> "my-project",
      overall_completion |-> calculateOverallCompletion(CompletionsOf(features), TRUE),
      last_updated       |-> 0,
      features           |-> features,
      todos              |-> FlatTodos]

OldStatus == [exists |-> TRUE, doc |-> TrackedDoc]

AgedBackups(content) == {[ts |-> t, content |-> content] : t \in 1..(MaxBackups - 1)}

Timestamps(dir) == {e.ts : e \in dir}

DiskIdle ==
  /\ cIn = NoInput /\ cOut = NoOutput
  /\ vCard = [hasSchema |-> FALSE, envSchema |-> <<>>]
  /\ vProvided = [n \in EnvNames |-> "undef"]
  /\ vResult = NoResult
  /\ rCards = <<>> /\ rConfigured = {} /\ rOut = NoRank
  /\ oFeatures = <<>> /\ oOut = NoCalc

StoreInit ==
  /\ DiskIdle
  /\ now = StartTime /\ steps = 0 /\ last = NoCall
  /\ \E aged \in BOOLEAN :
       \E c \in IF aged THEN {OldGlobal}
                ELSE {NoGlobal, OldGlobal, [exists |-> TRUE, mcpServers |-> {"s1"}]},
          e \in IF aged THEN {OldEnv} ELSE {NoEnv, OldEnv},
          s \in IF aged THEN {OldStatus} ELSE {NoStatus, OldStatus} :
         /\ files = [claude |-> c, env |-> e, status |-> s]
         /\ backups = IF aged
                      THEN [claude |-> AgedBackups(OldGlobal),
                            env    |-> AgedBackups(OldEnv),
                            status |-> AgedBackups(OldStatus)]
                      ELSE NoBackups
  /\ everBacked = [f \in {"claude", "env", "status"} |-> Timestamps(backups[f])]
  /\ prevFiles = files

\* the record of a call: the files before it, the times at which it copied
\* its file to a backup, and the time at which it wrote
Recorded(op, file, id, to, result, at, copied) ==
  /\ steps' = steps + 1
  /\ prevFiles' = files
  /\ everBacked' = [f \in DOMAIN everBacked |->
                      IF f = file THEN everBacked[f] \cup copied ELSE everBacked[f]]
  /\ last' = [op |-> op, file |-> file, id |-> id, to |-> to, result |-> result,
              at |-> at]

\* a millisecond passes
Tick ==
  /\ now < StartTime + MaxTicks
  /\ now' = now + 1
  /\ UNCHANGED <<steps, files, backups, everBacked, prevFiles, last>>
  /\ UNCHANGED <<valVars, rankVars, calcVars, callVars>>

\* a command adds a server to ~/.claude.json
AddServerGlobal ==
  /\ steps < MaxSteps
  /\ \E serverId \in ServerIds :
       LET r == addServerGlobal(files.claude, backups.claude, serverId, now)
       IN /\ files' = [files EXCEPT !.claude = r.file]
          /\ backups' = [backups EXCEPT !.claude = r.dir]
          /\ Recorded("addServerGlobal", "claude", serverId, "none", "ok", now,
                      IF files.claude.exists THEN {now} ELSE {})
  /\ UNCHANGED now
  /\ UNCHANGED <<valVars, rankVars, calcVars, callVars>>

\* a command removes a server; the clock may advance between its two backups
RemoveServer ==
  /\ steps < MaxSteps
  /\ \E serverId \in ServerIds, dt \in {0, 1} :
       /\ now + dt <= StartTime + MaxTicks
       /\ now' = now + dt
       /\ LET r == removeServerFiles(files, backups, serverId, now, now + dt)
          IN /\ files' = r.files
             /\ backups' = r.backups
             /\ Recorded("removeServer", "claude", serverId, "none", "ok", now + dt,
                         IF serverId \in readGlobalConfig(files.claude)
                         THEN {now, now + dt} ELSE {})
  /\ UNCHANGED <<valVars, rankVars, calcVars, callVars>>

\* the reconfigure command removes a configured server
HandleRemoval ==
  /\ steps < MaxSteps
  /\ \E serverId \in readGlobalConfig(files.claude), confirm1 \in BOOLEAN :
       LET r == handleRemoval(files, backups, serverId, confirm1, now, now, now)
       IN /\ files' = r.files
          /\ backups' = r.backups
          /\ Recorded("handleRemoval", "claude", serverId,
                      IF confirm1 THEN "confirmed" ELSE "cancelled", "ok", now,
                      IF confirm1 THEN {now} ELSE {})
  /\ UNCHANGED now
  /\ UNCHANGED <<valVars, rankVars, calcVars, callVars>>

\* a command stores variables in the project's .env
WriteProjectEnv ==
  /\ steps < MaxSteps
  /\ \E envVars \in EnvObjects(EnvValues) :
       LET r == writeProjectEnv(files.env, backups.env, envVars, now)
       IN /\ files' = [files EXCEPT !.env = r.file]
          /\ backups' = [backups EXCEPT !.env = r.dir]
          /\ Recorded("writeProjectEnv", "env", "none", "none", "ok", now,
                      IF files.env.exists THEN {now} ELSE {})
  /\ UNCHANGED now
  /\ UNCHANGED <<valVars, rankVars, calcVars, callVars>>

\* the feature keys and completions callers use
EditKeys == {"slash_commands", "npm_package", "core_functionality"}
EditCompletions == {0, 40}

\* the patches callers hand to updateStatus: an overall completion, or the
\* features read earlier with one completion changed
Patches(doc) ==
  {[overall_completion |-> v] : v \in {0, 99}}
  \cup {[features |-> [doc.features EXCEPT ![k].completion = 65]] :
          k \in DOMAIN doc.features \cap EditKeys}

\* the outcome of a status manager call is applied to the disk
StatusCall(op, id, to, r) ==
  /\ files' = [files EXCEPT !.status = r.file]
  /\ backups' = [backups EXCEPT !.status = r.dir]
  /\ Recorded(op, "status", id, to, r.result, now,
              IF r.result = "ok" /\ files.status.exists THEN {now} ELSE {})
  /\ UNCHANGED now
  /\ UNCHANGED <<valVars, rankVars, calcVars, callVars>>

\* a caller patches the status document
UpdateStatus ==
  /\ steps < MaxSteps
  /\ \E updates \in Patches(readStatus(files.status, now)) :
       StatusCall("updateStatus", "none", "none",
                  updateStatus(files.status, backups.status, updates, now))

StoreNext ==
  Tick \/ AddServerGlobal \/ RemoveServer \/ HandleRemoval \/ WriteProjectEnv
  \/ UpdateStatus

SpecStore == StoreInit /\ [][StoreNext]_vars

StatusInit ==
  /\ DiskIdle
  /\ now = StartTime /\ steps = 0 /\ last = NoCall
  /\ \E doc \in {TrackedDoc, InitStatusDoc,
                 [TrackedDoc EXCEPT !.todos.pending = <<>>,
                                    !.todos.completed_today = <<"t2">>]},
        exists \in BOOLEAN :
       files = [claude |-> NoGlobal, env |-> NoEnv,
                status |-> IF exists THEN [exists |-> TRUE, doc |-> doc] ELSE NoStatus]
  /\ backups = NoBackups
  /\ everBacked = NoBacked
  /\ prevFiles = files

\* a caller sets the completion of one feature
UpdateFeatureCompletion ==
  /\ steps < MaxSteps
  /\ \E featureKey \in EditKeys, completion \in EditCompletions :
       StatusCall("updateFeatureCompletion", featureKey, "none",
                  updateFeatureCompletion(files.status, backups.status,
                                          featureKey, completion, now))

\* a caller moves a todo item to a state
UpdateTodoStatus ==
  /\ steps < MaxSteps
  /\ \E todoId \in TodoIds, newStatus \in TodoStates :
       StatusCall("updateTodoStatus", todoId, newStatus,
                  updateTodoStatus(files.status, backups.status,
                                   todoId, newStatus, now))

StatusNext == Tick \/ UpdateStatus \/ UpdateFeatureCompletion \/ UpdateTodoStatus

SpecStatus == StatusInit /\ [][StatusNext]_vars


\* the project variable file before the call: none, an empty one, or one a
\* command has written
EnvFiles ==
  {NoEnv, OldEnv,
   [exists |-> TRUE, text |-> formatEnv(<<[key |-> "TOKEN", value |-> <<"a">>]>>)]}

\* calls explored per behaviour when file-system calls may fail
MaxFaultCalls == 1

FaultInit ==
  /\ DiskIdle
  /\ now = StartTime /\ steps = 0 /\ last = NoCall
  /\ \E aged \in BOOLEAN,
        c \in {NoGlobal, OldGlobal, [exists |-> TRUE, mcpServers |-> {"s1"}]},
        e \in EnvFiles,
        s \in {NoStatus, OldStatus} :
       /\ files = [claude |-> c, env |-> e, status |-> s]
       /\ backups = [claude |-> IF aged /\ c.exists THEN AgedBackups(OldGlobal) ELSE {},
                     env    |-> IF aged /\ e.exists THEN AgedBackups(OldEnv) ELSE {},
                     status |-> IF aged /\ s.exists THEN AgedBackups(OldStatus) ELSE {}]
  /\ everBacked = [f \in {"claude", "env", "status"} |-> Timestamps(backups[f])]
  /\ prevFiles = files

\* the outcome of a call that only reads
ReadCall(op, file, io, r) ==
  /\ steps < MaxFaultCalls
  /\ cIn' = [op |-> op, io |-> io]
  /\ cOut' = [op |-> op, threw |-> r.threw, value |-> r.value]
  /\ Recorded(op, file, "none", "none", IF r.threw THEN "threw" ELSE "ok", now, {})
  /\ UNCHANGED <<now, files, backups>>
  /\ UNCHANGED <<valVars, rankVars, calcVars>>

ReadGlobalConfig ==
  \E io \in IOs :
    ReadCall("readGlobalConfig", "claude", io, readGlobalConfigIO(files.claude, io))

ReadProjectEnv ==
  \E io \in IOs :
    ReadCall("readProjectEnv", "env", io, readProjectEnvIO(files.env, io))

ReadStatus ==
  \E io \in IOs :
    ReadCall("readStatus", "status", io, readStatusIO(files.status, now, io))

\* the outcome of a call that writes file f
WriteCall(op, f, id, io, arg, r, threw, success) ==
  /\ steps < MaxFaultCalls
  /\ cIn' = [op |-> op, io |-> io, arg |-> arg]
  /\ cOut' = [op |-> op, threw |-> threw, success |-> success]
  /\ files' = [files EXCEPT ![f] = r.file]
  /\ backups' = [backups EXCEPT ![f] = r.dir]
  /\ Recorded(op, f, id, "none",
              IF threw THEN "threw" ELSE IF success THEN "ok" ELSE "failed", now,
              Timestamps(r.dir) \ Timestamps(backups[f]))
  /\ UNCHANGED now
  /\ UNCHANGED <<valVars, rankVars, calcVars>>

\* addServerGlobal called directly: the caller sees what it returns
AddServerGlobalFaulty ==
  \E serverId \in ServerIds, io \in IOs :
    LET r == addServerGlobalIO(files.claude, backups.claude, serverId, now, io)
    IN WriteCall("addServerGlobal", "claude", serverId, io, serverId, r,
                 FALSE, r.result)

\* the add command applies a configuration to ~/.claude.json
AddCommandFaulty ==
  \E serverId \in ServerIds, io \in IOs :
    LET r == addCommandApply(files.claude, backups.claude, serverId, now, io)
    IN WriteCall("addCommand", "claude", serverId, io, serverId, r,
                 r.threw, r.success)

WriteProjectEnvFaulty ==
  \E envVars \in EnvObjects(EnvValues), io \in IOs :
    LET r == writeProjectEnvIO(files.env, backups.env, envVars, now, io)
    IN WriteCall("writeProjectEnv", "env", "none", io, envVars, r, FALSE, r.result)

UpdateStatusFaulty ==
  \E io \in IOs :
    \E updates \in Patches(readStatusIO(files.status, now, io).value) :
      LET r == updateStatusIO(files.status, backups.status, updates, now, io)
      IN WriteCall("updateStatus", "status", "none", io, updates, r,
                   r.result # "ok", r.result = "ok")

FaultNext ==
  ReadGlobalConfig \/ ReadProjectEnv \/ ReadStatus \/ AddServerGlobalFaulty
  \/ AddCommandFaulty \/ WriteProjectEnvFaulty \/ UpdateStatusFaulty

SpecFault == FaultInit /\ [][FaultNext]_vars

\* every component but the call under examination is idle
CallIdle ==
  /\ vCard = [hasSchema |-> FALSE, envSchema |-> <<>>]
  /\ vProvided = [n \in EnvNames |-> "undef"]
  /\ vResult = NoResult
  /\ rCards = <<>> /\ rConfigured = {} /\ rOut = NoRank
  /\ oFeatures = <<>> /\ oOut = NoCalc
  /\ now = 0 /\ steps = 0 /\ files = NoFiles /\ backups = NoBackups
  /\ everBacked = NoBacked /\ prevFiles = NoFiles /\ last = NoCall

CallUnchanged == UNCHANGED <<valVars, rankVars, calcVars, diskVars>>

EnvInit ==
  /\ CallIdle
  /\ \E file \in EnvFiles, envVars \in EnvObjects(EnvStrings) :
       cIn = [op |-> "writeProjectEnv", file |-> file, envVars |-> envVars]
  /\ cOut = NoOutput

\* writeProjectEnv(envVars) followed by readProjectEnv()
WriteThenReadEnv ==
  /\ cOut.op = "none"
  /\ LET w == writeProjectEnv(cIn.file, {}, cIn.envVars, 0)
     IN cOut' = [op |-> "readProjectEnv", file |-> w.file,
                 env |-> readProjectEnv(w.file)]
  /\ UNCHANGED cIn
  /\ CallUnchanged

EnvNext == WriteThenReadEnv

SpecEnv == EnvInit /\ [][EnvNext]_vars

GenerateInit ==
  /\ CallIdle
  /\ \E card \in DeployCards, envVars \in [EnvNames -> ProvidedValues] :
       cIn = [op |-> "generateServerConfig", card |-> card, envVars |-> envVars]
  /\ cOut = NoOutput

\* a command makes the configuration of a card
GenerateServerConfig ==
  /\ cIn.op = "generateServerConfig"
  /\ cOut.op = "none"
  /\ cOut' = [op |-> "generateServerConfig",
              config |-> generateServerConfig(cIn.card, cIn.envVars)]
  /\ UNCHANGED cIn
  /\ CallUnchanged

GenerateNext == GenerateServerConfig

SpecGenerate == GenerateInit /\ [][GenerateNext]_vars

LoadInit ==
  /\ CallIdle
  /\ \E catalogFiles \in SeqsUpTo(CardFiles, MaxFiles),
        customFiles \in SeqsUpTo(CardFiles, MaxFiles) :
       cIn = [op |-> "initialize", catalogFiles |-> catalogFiles,
              customFiles |-> customFiles]
  /\ cOut = NoOutput

\* a command initializes the card manager
Initialize ==
  /\ cIn.op = "initialize"
  /\ cOut.op = "none"
  /\ cOut' = [op |-> "initialize",
              cards |-> initialize(cIn.catalogFiles, cIn.customFiles)]
  /\ UNCHANGED cIn
  /\ CallUnchanged

LoadNext == Initialize

SpecLoad == LoadInit /\ [][LoadNext]_vars

CommandInit ==
  /\ CallIdle
  /\ \E command \in CommandNames, serverName \in ServerNames \cup {"none"},
        help \in BOOLEAN, overwrite \in BOOLEAN,
        catalog \in SUBSET ServerNames, configured \in SUBSET ServerNames :
       cIn = [op |-> "run", command |-> command, serverName |-> serverName,
              help |-> help, overwrite |-> overwrite, catalog |-> catalog,
              configured |-> configured]
  /\ cOut = NoOutput

\* the user runs a command
RunCommand ==
  /\ cIn.op = "run"
  /\ cOut.op = "none"
  /\ cOut' = [op |-> "run",
              exitCode |-> run(cIn.command, cIn.serverName, cIn.help, cIn.catalog,
                               cIn.configured, cIn.overwrite)]
  /\ UNCHANGED cIn
  /\ CallUnchanged

CommandNext == RunCommand

SpecCommand == CommandInit /\ [][CommandNext]_vars

\* the servers a user may have configured, and the names the cards carry
AdvisedServers == CoreServers \cup {"postgres"}
AllCardNames ==
  CoreServers \cup {"github-official", "context7", "atlassian", "firecrawl",
                    "playwright", "puppeteer", "postgres", "notion"}

RecommendInit ==
  /\ CallIdle
  /\ \/ \E project \in Projects :
          cIn = [op |-> "analyze", project |-> project]
     \/ \E project \in Projects, analysed \in BOOLEAN :
          cIn = [op |-> "getRecommendations", project |-> project,
                 analysed |-> analysed]
     \/ \E analysis \in Analyses, configuredServers \in SUBSET AdvisedServers,
          cardNames \in {AllCardNames, {}} :
          cIn = [op |-> "getServerRecommendations", analysis |-> analysis,
                 configuredServers |-> configuredServers, cardNames |-> cardNames]
  /\ cOut = NoOutput

\* a command analyses the project
Analyze ==
  /\ cIn.op = "analyze"
  /\ cOut.op = "none"
  /\ cOut' = [op |-> "analyze",
              servers |-> analyze(cIn.project).recommendedServers]
  /\ UNCHANGED cIn
  /\ CallUnchanged

\* a command asks the analyzer for its recommendations
GetRecommendations ==
  /\ cIn.op = "getRecommendations"
  /\ cOut.op = "none"
  /\ LET r == getRecommendations(cIn.analysed, analyze(cIn.project))
     IN cOut' = [op |-> "getRecommendations",
                 servers |-> r.essential \cup r.recommended \cup r.optional]
  /\ UNCHANGED cIn
  /\ CallUnchanged

\* a command asks the advisory engine for its recommendations
GetServerRecommendations ==
  /\ cIn.op = "getServerRecommendations"
  /\ cOut.op = "none"
  /\ cOut' = [op |-> "getServerRecommendations",
              servers |-> getServerRecommendations(cIn.analysis,
                            cIn.configuredServers, cIn.cardNames)]
  /\ UNCHANGED cIn
  /\ CallUnchanged

RecommendNext == Analyze \/ GetRecommendations \/ GetServerRecommendations

SpecRecommend == RecommendInit /\ [][RecommendNext]_vars

CustomInit ==
  /\ CallIdle
  /\ \E minimum \in MinimumFiles, configuredIds \in SUBSET FoundationIds :
       cIn = [op |-> "addCustom", minimum |-> minimum,
              configuredIds |-> configuredIds]
  /\ cOut = NoOutput

\* the user runs add-custom
AddCustom ==
  /\ cIn.op = "addCustom"
  /\ cOut.op = "none"
  /\ cOut' = [op |-> "addCustom",
              result |-> addCustom(cIn.minimum, cIn.configuredIds)]
  /\ UNCHANGED cIn
  /\ CallUnchanged

CustomNext == AddCustom

SpecCustom == CustomInit /\ [][CustomNext]_vars

MergeInit ==
  /\ CallIdle
  /\ \E current \in CurrentConfigs, card \in MergeCards :
       cIn = [op |-> "mergeConfigurations", current |-> current, card |-> card]
  /\ cOut = NoOutput

\* reconfigure merges the configured server with its card
MergeConfigurations ==
  /\ cIn.op = "mergeConfigurations"
  /\ cOut.op = "none"
  /\ cOut' = [op |-> "mergeConfigurations",
              updated |-> mergeConfigurations(cIn.current, cIn.card)]
  /\ UNCHANGED cIn
  /\ CallUnchanged

MergeNext == MergeConfigurations

SpecMerge == MergeInit /\ [][MergeNext]_vars

HelpInit ==
  /\ CallIdle
  /\ \E command \in CommandNames, args \in SeqsUpTo(ArgvTokens, MaxArgv) :
       cIn = [op |-> "runArgs", command |-> command, args |-> args]
  /\ cOut = NoOutput

\* the user runs a command with an argument list
RunArgs ==
  /\ cIn.op = "runArgs"
  /\ cOut.op = "none"
  /\ cOut' = [op |-> "runArgs", result |-> runArgs(cIn.args)]
  /\ UNCHANGED cIn
  /\ CallUnchanged

HelpNext == RunArgs

SpecHelp == HelpInit /\ [][HelpNext]_vars

\* the project variable files a command may have written
WrittenEnvFiles ==
  {NoEnv} \cup {[exists |-> TRUE, text |-> formatEnv(obj)] :
                  obj \in EnvObjects({<<>>, <<"a">>})}

ServerStatusInit ==
  /\ CallIdle
  /\ \E hasCard \in BOOLEAN, card \in Cards, file \in WrittenEnvFiles :
       cIn = [op |-> "getServerStatus", hasCard |-> hasCard, card |-> card,
              file |-> file]
  /\ cOut = NoOutput

\* the generator asks for the status of a configured server
GetServerStatus ==
  /\ cIn.op = "getServerStatus"
  /\ cOut.op = "none"
  /\ cOut' = [op |-> "getServerStatus",
              status |-> getServerStatus(cIn.hasCard, cIn.card, cIn.file)]
  /\ UNCHANGED cIn
  /\ CallUnchanged

ServerStatusNext == GetServerStatus

SpecServerStatus == ServerStatusInit /\ [][ServerStatusNext]_vars

\* the placeholders of a server configuration, in the order they occur
PlaceholderLists == {SelectSeq(EnvOrder, LAMBDA n : n \in S) : S \in SUBSET EnvNames}

ScopeInit ==
  /\ CallIdle
  /\ \E configured \in BOOLEAN, placeholders \in PlaceholderLists,
        envFile \in WrittenEnvFiles, processEnv \in ProcessEnvs,
        newScope \in {"project", "global"} :
       cIn = [op |-> "updateServerScope", configured |-> configured,
              placeholders |-> placeholders, envFile |-> envFile,
              processEnv |-> processEnv, newScope |-> newScope]
  /\ cOut = NoOutput

\* a command moves a server to another scope
UpdateServerScope ==
  /\ cIn.op = "updateServerScope"
  /\ cOut.op = "none"
  /\ cOut' = [op |-> "updateServerScope",
              result |-> updateServerScope(cIn.configured, cIn.placeholders,
                           cIn.envFile, {}, cIn.processEnv, cIn.newScope, StartTime)]
  /\ UNCHANGED cIn
  /\ CallUnchanged

ScopeNext == UpdateServerScope

SpecScope == ScopeInit /\ [][ScopeNext]_vars

\* two invocations of addServerGlobal, each in a command of its own
Invocations == {"first", "second"}
AddedId == [first |-> "s1", second |-> "s2"]

ConcurrentInit ==
  /\ vCard = [hasSchema |-> FALSE, envSchema |-> <<>>]
  /\ vProvided = [n \in EnvNames |-> "undef"]
  /\ vResult = NoResult
  /\ rCards = <<>> /\ rConfigured = {} /\ rOut = NoRank
  /\ oFeatures = <<>> /\ oOut = NoCalc
  /\ now = StartTime /\ steps = 0 /\ last = NoCall
  /\ \E c \in {NoGlobal, OldGlobal, [exists |-> TRUE, mcpServers |-> {"s3"}]} :
       files = [claude |-> c, env |-> NoEnv, status |-> NoStatus]
  /\ backups = NoBackups
  /\ everBacked = NoBacked
  /\ prevFiles = files
  /\ cIn = [op |-> "addServerGlobal", serverId |-> AddedId]
  /\ cOut = [op |-> "addServerGlobal",
             pc |-> [p \in Invocations |-> "start"],
             config |-> [p \in Invocations |-> {}]]

ConcurrentUnchanged ==
  /\ UNCHANGED <<steps, everBacked, prevFiles, last, now, cIn>>
  /\ UNCHANGED <<valVars, rankVars, calcVars>>

\* await this.readGlobalConfig(), then config.mcpServers[serverId] is set in
\* memory
AddServerGlobalRead ==
  \E p \in Invocations :
    /\ cOut.pc[p] = "start"
    /\ cOut' = [cOut EXCEPT !.pc[p] = "read",
                            !.config[p] = readGlobalConfig(files.claude)
                                            \cup {cIn.serverId[p]}]
    /\ UNCHANGED <<files, backups>>
    /\ ConcurrentUnchanged

\* writeGlobalConfig: await this.backupConfig(this.globalConfigPath)
AddServerGlobalBackup ==
  \E p \in Invocations :
    /\ cOut.pc[p] = "read"
    /\ backups' = [backups EXCEPT !.claude = backupConfig(@, files.claude, now)]
    /\ cOut' = [cOut EXCEPT !.pc[p] = "backedUp"]
    /\ UNCHANGED files
    /\ ConcurrentUnchanged

\* writeGlobalConfig: await fs.writeJson(this.globalConfigPath, config)
AddServerGlobalWrite ==
  \E p \in Invocations :
    /\ cOut.pc[p] = "backedUp"
    /\ files' = [files EXCEPT !.claude = [exists |-> TRUE,
                                          mcpServers |-> cOut.config[p]]]
    /\ cOut' = [cOut EXCEPT !.pc[p] = "done"]
    /\ UNCHANGED backups
    /\ ConcurrentUnchanged

ConcurrentNext ==
  Tick \/ AddServerGlobalRead \/ AddServerGlobalBackup \/ AddServerGlobalWrite

SpecConcurrent == ConcurrentInit /\ [][ConcurrentNext]_vars

----------------------------------------------------------------------------
(* Claims about the validator *)


\* the entries of the card under validation that lack a non-empty value
Unprovided(i) == ~Truthy(vProvided[vCard.envSchema[i].name])

MissingNames == {vResult.missing[i].name : i \in 1..Len(vResult.missing)}

\* C1: an envSchema entry with no explicit `required` field is treated as
\* required: without a non-empty provided value its name is listed in
\* `missing` and `valid` is false; a name is left out of `missing` for lack
\* of a value only when every entry declaring it says required === false.
C1_DefaultRequired ==
  vResult # NoResult =>
    /\ \A i \in 1..Len(vCard.envSchema) :
         (vCard.envSchema[i].required = "absent" /\ Unprovided(i))
           => (vCard.envSchema[i].name \in MissingNames /\ ~vResult.valid)
    /\ \A n \in EnvNames :
         (\A i \in 1..Len(vCard.envSchema) :
             vCard.envSchema[i].name = n => vCard.envSchema[i].required = "false")
           => n \notin MissingNames

\* C1 witness: an entry without `required` and an explicitly optional entry,
\* both without a value; only the first is reported
C1_Witness ==
  /\ vResult # NoResult
  /\ \E i, j \in 1..Len(vCard.envSchema) :
       /\ vCard.envSchema[i].required = "absent" /\ Unprovided(i)
       /\ vCard.envSchema[j].required = "false" /\ Unprovided(j)
       /\ vCard.envSchema[i].name \in MissingNames
       /\ vCard.envSchema[j].name \notin MissingNames
  /\ ~vResult.valid

\* positions of the required entries that have no non-empty provided value
LackingRequired ==
  {i \in 1..Len(vCard.envSchema) :
     vCard.envSchema[i].required # "false" /\ Unprovided(i)}

\* C2: `missing` lists every required variable that has no non-empty
\* provided value (one item per such entry, not just the first) and nothing
\* else, and `valid` is true exactly when `missing` is empty.
C2_AllMissingReported ==
  vResult # NoResult =>
    /\ Len(vResult.missing) = Cardinality(LackingRequired)
    /\ MissingNames = {vCard.envSchema[i].name : i \in LackingRequired}
    /\ vResult.valid <=> (vResult.missing = <<>>)
    /\ vResult.valid <=> (LackingRequired = {})

\* C2 witness: two required variables validated against {} are both reported
C2_Witness ==
  /\ vResult # NoResult
  /\ Len(vCard.envSchema) = 2
  /\ vCard.envSchema[1].name # vCard.envSchema[2].name
  /\ \A i \in 1..2 : vCard.envSchema[i].required # "false"
  /\ \A n \in EnvNames : vProvided[n] = "undef"
  /\ vResult = [valid |-> FALSE,
                missing |-> <<[name |-> vCard.envSchema[1].name],
                              [name |-> vCard.envSchema[2].name]>>]

----------------------------------------------------------------------------
(* Claims about the settings store and its backups *)

\* the MaxBackups greatest of a set of timestamps
MostRecent(T) == {t \in T : Cardinality({u \in T : u > t}) < MaxBackups}

Overwrote ==
  /\ last.op # "none"
  /\ last.result = "ok"
  /\ prevFiles[last.file].exists
  /\ last.op = "removeServer" => last.id \in prevFiles.claude.mcpServers
  /\ last.op = "handleRemoval" => last.to = "confirmed"

----------------------------------------------------------------------------
(* Claims about the status manager *)

\* the values the program's calculators give for the features of a document
Recomputed(doc) ==
  {statusCalculateOverallCompletion(CompletionsOf(doc.features)),
   calculateOverallCompletion(CompletionsOf(doc.features), TRUE),
   calculateOverallCompletion(CompletionsOf(doc.features), FALSE)}

\* C5: after every successful status update (updateStatus,
\* updateFeatureCompletion, updateTodoStatus) the persisted
\* overall_completion is a value computed from the persisted features; a
\* value the caller supplies in the patch is never stored as such.
C5_OverallAlwaysRecomputed ==
  (last.file = "status" /\ last.result = "ok") =>
    files.status.doc.overall_completion \in Recomputed(files.status.doc)

\* the todo lists before and after the last call
TodosBefore == prevFiles.status.doc.todos
TodosAfter == files.status.doc.todos

\* C6 as stated: no call moves a todo item from a later list (pending,
\* in_progress, completed_today in that order) back to an earlier one.
C6_TodoForwardOnly ==
  \A id \in TodoIds : ListRank(TodosBefore, id) <= ListRank(TodosAfter, id)

\* the number of entries of the three lists with the given id
Occurrences(todos, id) ==
  Cardinality({<<n, i>> \in (1..3) \X (1..4) :
                 i <= Len(todos[TodoLists[n]]) /\ todos[TodoLists[n]][i] = id})

\* C6: after a successful updateTodoStatus(id, state) the item is, once, in
\* the list the requested state names (completed: completed_today,
\* in_progress: in_progress, anything else: pending) whatever list held it
\* before, and every other item is where it was.
C6_TodoMovesAsRequested ==
  (last.op = "updateTodoStatus" /\ last.result = "ok") =>
    /\ ListRank(TodosAfter, last.id) >= 1
    /\ TodoLists[ListRank(TodosAfter, last.id)] = TargetList(last.to)
    /\ Occurrences(TodosAfter, last.id) = 1
    /\ \A id \in TodoIds \ {last.id} :
         ListRank(TodosAfter, id) = ListRank(TodosBefore, id)

\* an item was moved from a later list back to an earlier one
C6_Witness ==
  /\ last.op = "updateTodoStatus"
  /\ last.result = "ok"
  /\ ListRank(TodosAfter, last.id) >= 1
  /\ ListRank(TodosBefore, last.id) > ListRank(TodosAfter, last.id)

\* C7: updateTodoStatus naming an id that none of the three todo lists holds
\* succeeds, and afterwards the persisted document has the item in the list
\* of the requested state.
C7_AutoCreateSucceeds ==
  (/\ last.op = "updateTodoStatus"
   /\ TodosBefore.shape = "lists"
   /\ ListRank(TodosBefore, last.id) = 0) =>
    /\ last.result = "ok"
    /\ files.status.exists
    /\ ListRank(TodosAfter, last.id) >= 1
    /\ TodoLists[ListRank(TodosAfter, last.id)] = TargetList(last.to)

----------------------------------------------------------------------------
(* Claims about the project variable file *)

\* no value of the object holds a double quote or a line break
PlainValues(obj) ==
  \A i \in 1..Len(obj) : \A j \in 1..Len(obj[i].value) :
    obj[i].value[j] \notin {"\"", NL}

\* C11: for a map whose values hold no double quote and no line break,
\* written to a file that holds no other variable, writeProjectEnv(map)
\* followed by readProjectEnv() yields a mapping equal to map.
C11_EnvRoundTrip ==
  (/\ cOut.op = "readProjectEnv"
   /\ PlainValues(cIn.envVars)
   /\ Keys(readProjectEnv(cIn.file)) \subseteq Keys(cIn.envVars)) =>
    AsMap(cOut.env) = AsMap(cIn.envVars)

\* C12: removing a configured server, by removeServer or by the remove
\* action of reconfigure, leaves the project variable file exactly as it was.
C12_RemoveKeepsEnvFile ==
  last.op \in {"removeServer", "handleRemoval"} => files.env = prevFiles.env

\* a configured server was removed while the project variable file held a
\* variable
C12_Witness ==
  /\ last.op \in {"removeServer", "handleRemoval"}
  /\ last.id \in prevFiles.claude.mcpServers
  /\ last.id \notin files.claude.mcpServers
  /\ files.env.exists
  /\ files.env.text # <<>>
  /\ files.env = prevFiles.env

----------------------------------------------------------------------------
(* Claims about failing file-system calls *)

\* the file a read call reads was missing, or reading it failed
ReadDegraded == ~prevFiles[last.file].exists \/ ~cIn.io.read

\* C13: readGlobalConfig, readProjectEnv and readStatus never throw; when
\* the file is missing or cannot be read or parsed they return the default:
\* { mcpServers: {} }, {} and the default status document.
C13_ReadNeverThrows ==
  /\ cOut.op \in {"readGlobalConfig", "readProjectEnv", "readStatus"} => ~cOut.threw
  /\ (cOut.op = "readGlobalConfig" /\ ReadDegraded) => cOut.value = {}
  /\ (cOut.op = "readProjectEnv" /\ ReadDegraded) => cOut.value = <<>>
  /\ (cOut.op = "readStatus" /\ ReadDegraded) => cOut.value = getDefaultStatus(last.at)

\* a settings file that holds a server could not be read and the default
\* came back
C13_Witness ==
  /\ cOut.op = "readGlobalConfig"
  /\ prevFiles.claude.exists
  /\ prevFiles.claude.mcpServers # {}
  /\ ~cIn.io.read
  /\ ~cOut.threw
  /\ cOut.value = {}

\* the document a write call was to write, given what it could read
Intended ==
  IF cOut.op \in {"addServerGlobal", "addCommand"}
  THEN [exists |-> TRUE,
        mcpServers |-> readGlobalConfigIO(prevFiles.claude, cIn.io).value \cup {cIn.arg}]
  ELSE IF cOut.op = "writeProjectEnv"
  THEN [exists |-> TRUE,
        text |-> formatEnv(Spread(readProjectEnvIO(prevFiles.env, cIn.io).value, cIn.arg))]
  ELSE [exists |-> TRUE,
        doc |-> [Merge(readStatusIO(prevFiles.status, last.at, cIn.io).value, cIn.arg)
                   EXCEPT !.last_updated = last.at]]

WriteOps == {"addServerGlobal", "addCommand", "writeProjectEnv", "updateStatus"}

\* C14: when the backup copy or the pruning fails and the write itself does
\* not, a write operation (whose document is valid) still succeeds and the
\* file holds the new document.
C14_BackupFailureDoesNotBlock ==
  (/\ cOut.op \in WriteOps
   /\ cIn.io.write
   /\ ~cIn.io.copy \/ ~cIn.io.prune
   /\ cOut.op = "updateStatus" => validateStatus(Intended.doc)) =>
    /\ cOut.success
    /\ files[last.file] = Intended

\* the copy of an existing settings file failed, no backup was added, and
\* the file was overwritten with a different document
C14_Witness ==
  /\ cOut.op = "addServerGlobal"
  /\ ~cIn.io.copy
  /\ cIn.io.write
  /\ prevFiles.claude.exists
  /\ everBacked.claude = Timestamps(backups.claude)
  /\ last.at \notin Timestamps(backups.claude)
  /\ files.claude # prevFiles.claude
  /\ cOut.success

\* C15: when overwriting the settings file fails, addServerGlobal and the
\* add command do not complete as if the write had succeeded.
C15_WriteFailureEscalated ==
  (cOut.op \in {"addServerGlobal", "addCommand"} /\ ~cIn.io.write) =>
    (cOut.threw \/ ~cOut.success)

----------------------------------------------------------------------------
(* Claims about generateServerConfig, loading and the commands *)

\* what the claimed substitution makes of a string of the card
Substituted(str) == ReplacePlaceholder(str, cIn.envVars)

\* C16: for each of the deployment kinds docker, npx and native (the
\* HTTP transport aside), every placeholder in the card's command and
\* arguments is replaced by the value provided for it and left as it is when
\* none is provided.
C16_PlaceholdersEveryKind ==
  (/\ cOut.op = "generateServerConfig"
   /\ cIn.card.hasDeploy
   /\ cIn.card.kind \in {"docker", "npx", "native"}
   /\ cIn.card.deployCommand \notin {"undefined", "http://host/sse"}) =>
    /\ ~cOut.config.threw
    /\ cOut.config.command = Substituted(cIn.card.deployCommand)
    /\ Len(cOut.config.args) = Len(cIn.card.args)
    /\ \A i \in 1..Len(cIn.card.args) :
         cOut.config.args[i] = Substituted(cIn.card.args[i])

\* C17: for a card without a deploy section, or with an unknown or missing
\* deployment kind, generateServerConfig does not throw, and when the card
\* names no command the result is the echo command with the message that
\* manual configuration is required.
C17_UnknownKindFallsBack ==
  (/\ cOut.op = "generateServerConfig"
   /\ ~cIn.card.hasDeploy \/ cIn.card.kind \in {"custom", "undefined"}) =>
    /\ ~cOut.config.threw
    /\ ((~cIn.card.hasDeploy \/ cIn.card.deployCommand = "undefined")
          /\ cIn.card.command = "undefined") =>
         (cOut.config.command = "echo" /\ cOut.config.args = ManualMessage)

\* the ids of the catalog files that load
CatalogIds ==
  {cIn.catalogFiles[i].id : i \in {j \in 1..Len(cIn.catalogFiles) :
      cIn.catalogFiles[j].parses /\ cIn.catalogFiles[j].valid}}

\* C18: after loading, ids are unique in the store, and no custom card has
\* taken the place of a catalog card with the same id (there is no explicit
\* override in either directory).
C18_NoSilentShadowing ==
  cOut.op = "initialize" =>
    /\ \A i, j \in 1..Len(cOut.cards) :
         cOut.cards[i].id = cOut.cards[j].id => i = j
    /\ \A i \in 1..Len(cOut.cards) :
         cOut.cards[i].custom => cOut.cards[i].id \notin CatalogIds

\* C19: after loading, every card in the store passes the schema, whichever
\* directory it came from, and a bad file keeps no good file out.
C19_OnlyValidRecords ==
  cOut.op = "initialize" =>
    /\ \A i \in 1..Len(cOut.cards) : cOut.cards[i].valid
    /\ \A id \in CatalogIds : \E i \in 1..Len(cOut.cards) : cOut.cards[i].id = id

\* C20: add and reconfigure exit non-zero when the server name is missing,
\* when add names a server that is not in the catalog, and when reconfigure
\* names a server that is not configured.
C20_NonZeroOnBadIdentifier ==
  (/\ cOut.op = "run"
   /\ ~cIn.help
   /\ \/ cIn.command \in {"add", "reconfigure"} /\ cIn.serverName = "none"
      \/ cIn.command = "add" /\ cIn.serverName \notin cIn.catalog
      \/ cIn.command = "reconfigure" /\ cIn.serverName \notin cIn.configured) =>
    cOut.exitCode # 0

----------------------------------------------------------------------------
(* Claims about recommendations, add-custom, reconcile and the rest *)

\* C21: whatever the project and whatever else is recommended, the servers
\* recommended by analyze, getRecommendations and getServerRecommendations
\* include serena, sequentialthinking and memory.
C21_BaselineAlwaysRecommended ==
  cOut.op \in {"analyze", "getRecommendations", "getServerRecommendations"} =>
    CoreServers \subseteq cOut.servers

\* the same for the two operations of the project analyzer alone
C21_AnalyzerBaseline ==
  cOut.op \in {"analyze", "getRecommendations"} =>
    CoreServers \subseteq cOut.servers

\* every required entry of the file, or one of its alternatives, is configured
AllRequiredConfigured ==
  /\ cIn.minimum.loads
  /\ \A i \in 1..Len(cIn.minimum.required) :
       \/ cIn.minimum.required[i].id \in cIn.configuredIds
       \/ \E alt \in cIn.minimum.required[i].alternatives : alt \in cIn.configuredIds

Mappings(args) ==
  {args[i + 1] : i \in {j \in 1..(Len(args) - 1) : args[j] = DashE /\ args[j + 1] # DashE}}

\* C23: for a docker card on stdio, mergeConfigurations sets the command
\* from the card, keeps every mapping of the configured server whose variable
\* the card still declares, and adds a mapping only for a declared variable
\* that had none.
C23_MergeKeepsMappings ==
  (/\ cOut.op = "mergeConfigurations"
   /\ cIn.card.transport = "stdio"
   /\ cIn.card.runtime = "docker") =>
    /\ cOut.updated.command = "docker"
    /\ \A m \in Mappings(cIn.current.args) :
         m.text \in cIn.card.declared => m \in Mappings(cOut.updated.args)
    /\ \A m \in Mappings(cOut.updated.args) \ Mappings(cIn.current.args) :
         /\ m.text \in cIn.card.declared
         /\ \A old \in Mappings(cIn.current.args) : old.text # m.text

\* the same with the card's envSchema given as an object keyed by name and
\* every configured mapping written as NAME=value
C23_MergeObjectSchema ==
  (/\ cOut.op = "mergeConfigurations"
   /\ cIn.card.schemaForm = "object"
   /\ \A m \in Mappings(cIn.current.args) : m.eq # "none") =>
    C23_MergeKeepsMappings

\* C25: for every command, when the argument list contains --help or -h, run
\* shows the help text and does not call execute.
C25_HelpFlagShowsHelp ==
  (/\ cOut.op = "runArgs"
   /\ \E i \in 1..Len(cIn.args) : cIn.args[i] \in {"--help", "-h"}) =>
    cOut.result.showedHelp /\ ~cOut.result.executed

\* -h after a long flag and its value
C25_Witness ==
  /\ cOut.op = "runArgs"
  /\ Len(cIn.args) = 3
  /\ cIn.args[1] = "--scope" /\ cIn.args[2] = "github" /\ cIn.args[3] = "-h"
  /\ cOut.result.showedHelp
  /\ cOut.result.parsed.flags["scope"] = "github"

\* the document updateStatus started from has a project and features that
\* each have a name (their completions are numbers throughout)
WellFormedBefore ==
  LET doc == readStatus(prevFiles.status, last.at)
  IN /\ doc.project # ""
     /\ \A k \in DOMAIN doc.features : doc.features[k].name # ""

\* C26: updateStatus on a document with a project and well-formed features
\* succeeds and persists the document whatever its overall_completion, 0
\* included; the patches only set overall_completion or one completion.
C26_ZeroOverallAccepted ==
  (last.op = "updateStatus" /\ WellFormedBefore) =>
    /\ last.result = "ok"
    /\ files.status.exists
    /\ files.status.doc.overall_completion \in {0, 99}
         \cup {readStatus(prevFiles.status, last.at).overall_completion}

\* C27: the status documents start with every todo id at most once across
\* pending, in_progress and completed_today, and after any sequence of calls
\* every id still occurs at most once across the three lists.
C27_TodoIdsStayUnique ==
  (files.status.exists /\ TodosAfter.shape = "lists") =>
    \A id \in TodoIds : Occurrences(TodosAfter, id) <= 1

\* two items are in the lists and the last call moved one to another list
C27_Witness ==
  /\ last.op = "updateTodoStatus"
  /\ last.result = "ok"
  /\ \A id \in TodoIds : Occurrences(TodosAfter, id) = 1
  /\ Occurrences(TodosBefore, last.id) = 1
  /\ ListRank(TodosBefore, last.id) # ListRank(TodosAfter, last.id)

\* C28: for a server with a card, getServerStatus returns configured exactly
\* when validateEnvVars accepts the card with the variables stored in the
\* project variable file, and missing-env otherwise.
C28_StatusFollowsEnvFile ==
  (cOut.op = "getServerStatus" /\ cIn.hasCard) =>
    /\ cOut.status \in {"configured", "missing-env"}
    /\ cOut.status = "configured" <=>
         validateEnvVars(cIn.card, ProvidedFrom(readProjectEnv(cIn.file))).valid

\* C29: after updateServerScope(id, 'project'), a placeholder variable with
\* no value in the project file and none in the process environment has no
\* entry in the project variable file, unless the entry was there before and
\* is unchanged.
C29_OnlyValuesPersisted ==
  (cOut.op = "updateServerScope" /\ cIn.newScope = "project") =>
    LET before == readProjectEnv(cIn.envFile)
        after == readProjectEnv(cOut.result.file)
    IN \A i \in 1..Len(cIn.placeholders) :
         LET n == cIn.placeholders[i]
         IN (ValueIn(before, n) = <<>> /\ cIn.processEnv[n] = <<>>) =>
              \/ n \notin Keys(after)
              \/ n \in Keys(before) /\ Get(after, n) = Get(before, n)

\* C30: once two interleaved invocations of addServerGlobal for different
\* ids have both completed, ~/.claude.json holds both ids.
C30_NoLostUpdate ==
  (/\ cOut.op = "addServerGlobal"
   /\ cIn.op = "addServerGlobal"
   /\ \A p \in Invocations : cOut.pc[p] = "done") =>
    \A p \in Invocations : cIn.serverId[p] \in files.claude.mcpServers

----------------------------------------------------------------------------
(* Claims about scoring and ranking *)

CardOf(id) == CHOOSE c \in Range(rCards) : c.id = id

\* C9: for a card whose two ratings are integers in 1..5 the score is
\* aiAgentRating * 1.2 + humanVerificationRating * 0.8, evaluated as the
\* JavaScript expression is: k tenths with k = 12a + 8b, and exactly the
\* double that the two products and the sum round to.
C9_ScoreFormula ==
  (rOut.op = "score" /\ CardOf(rOut.arg).rated) =>
    \E a, b \in Ratings :
      /\ CardOf(rOut.arg).aiAgentRating = a
      /\ CardOf(rOut.arg).humanVerificationRating = b
      /\ rOut.score.k = 12 * a + 8 * b
      /\ rOut.score =
           RoundDouble(MulDouble(a, Double12).k + MulDouble(b, Double08).k,
                       MulDouble(a, Double12).d + MulDouble(b, Double08).d)

\* C9 witness: the card {ratingA: 5, ratingB: 3} scores 8.4
C9_Witness ==
  /\ rOut.op = "score"
  /\ CardOf(rOut.arg).rated
  /\ CardOf(rOut.arg).aiAgentRating = 5
  /\ CardOf(rOut.arg).humanVerificationRating = 3
  /\ rOut.score.k = 84

\* position of a card in the store
IdxOf(id) == CHOOSE i \in 1..Len(rCards) : rCards[i].id = id

\* the score of a card as the ranking is specified to compute it
SpecScoreKey(card) ==
  IF ~card.rated THEN 0
  ELSE DoubleKey(RoundDouble(
         MulDouble(card.aiAgentRating, Double12).k
           + MulDouble(card.humanVerificationRating, Double08).k,
         MulDouble(card.aiAgentRating, Double12).d
           + MulDouble(card.humanVerificationRating, Double08).d))

RatingSum(card) == card.aiAgentRating + card.humanVerificationRating

SpecScoreKeys == [c \in Range(rCards) |-> SpecScoreKey(c)]

RatingSums == [c \in Range(rCards) |-> RatingSum(c)]

\* x comes before y: larger key first, equal keys in store order
Precedes(x, y, key) ==
  key[x] > key[y] \/ (key[x] = key[y] /\ IdxOf(x.id) < IdxOf(y.id))

Ordered(list, key) ==
  \A i, j \in 1..Len(list) : i < j => Precedes(list[i], list[j], key)

Unconfigured == {c \in Range(rCards) : c.id \notin rConfigured}

----------------------------------------------------------------------------
(* Claims about the overall completion *)

\* the overall percent when the keys missing from `table` share the weight
\* the table leaves over: 1 minus the weights of the features it knows
SharedRemainder(features, table) ==
  LET keys    == DOMAIN features
      known   == keys \cap DOMAIN table
      unknown == keys \ known
      u       == Cardinality(unknown)
      rest    == 100 - SumOver([k \in known |-> table[k]], known)
      \* weights in multiples of 1 / (100 * u); a known key weighs table[k] / 100
      w       == [k \in keys |->
                    IF k \in known THEN table[k] * (IF u = 0 THEN 1 ELSE u)
                    ELSE IF rest > 0 THEN rest ELSE 0]
      total   == SumOver(w, keys)
  IN IF total = 0 THEN 0
     ELSE MathRound(SumOver([k \in keys |-> features[k] * w[k]], keys), total)

\* C8: with a weight table, every feature key absent from the table gets an
\* equal share of the remaining weight (1 minus the sum of the known
\* weights) and the overall percent is the rounded weighted mean;
\* {a: 100, b: 0} with a weighing 0.4 gives overall = 40.
C8_RemainingWeightShared ==
  /\ oOut.op = "weighted" => oOut.value = SharedRemainder(oFeatures, InitWeights)
  /\ oOut.op = "status" => oOut.value = SharedRemainder(oFeatures, StatusWeights)

\* C24: without a weight table the overall completion is the arithmetic mean
\* of the feature completions rounded to the nearest integer (a half rounds
\* up), and 0 for an empty feature set.
C24_PlainMeanRounded ==
  oOut.op = "mean" =>
    LET n == Cardinality(DOMAIN oFeatures)
        sum == SumOver(oFeatures, DOMAIN oFeatures)
    IN IF n = 0 THEN oOut.value = 0
       ELSE /\ 2 * n * oOut.value > 2 * sum - n
            /\ 2 * n * oOut.value <= 2 * sum + n

\* a mean of three features that is rounded up
C24_Witness ==
  /\ oOut.op = "mean"
  /\ Cardinality(DOMAIN oFeatures) = 3
  /\ 3 * oOut.value > SumOver(oFeatures, DOMAIN oFeatures)

====
